---- MODULE Spec2Model ----
(***************************************************************************)
(* Model of backup-cosense: the CommitTarget partition, the page diff, the *)
(* external-link classifier and the external-link archival run             *)
(* (save_external_links with its log directory, links directory and        *)
(* saved-links index).                                                     *)
(***************************************************************************)
EXTENDS Integers, Sequences, FiniteSets, TLC

(***************************************************************************)
(* Bounds of the model.                                                    *)
(***************************************************************************)
\* number of distinct file names used in CommitTarget inputs
NNames == 2
\* largest number of raw paths handed to one category of a CommitTarget
MaxSetSize == 2
\* longest list of links and longest list of previous records handed to the
\* classifier
MaxLinks == 2
\* longest page list of a snapshot handed to the page diff
MaxPages == 2
\* snapshot timestamps are 1..MaxT
MaxT == 2
\* archival runs in one behaviour
MaxRuns == 3
\* edits of the configuration or of the remote content in one behaviour
MaxChanges == 1
\* longest list of links handed to the fetch pipeline
MaxFetch == 3
\* parallel_limit is 1..MaxLimit
MaxLimit == 2
\* last reading of the wall clock, in seconds
MaxClock == 2
\* timestamps of the log files of one log directory lookup: 1..MaxStamp
MaxStamp == 4
\* timestamps of the stored snapshots of one commit pass: 1..MaxSnap
MaxSnap == 4
\* the longest title handed to _escape_filename
MaxTitle == 4
\* the depth of the directories below the links directory
MaxDepth == 2
\* the most files one _commit_target call deletes
MaxDeleted == 2

(***************************************************************************)
(* Paths.  A path is a sequence of components; a path whose first          *)
(* component is "/" is absolute.                                           *)
(***************************************************************************)
AllNames == <<"a", "b", "c", "d">>
Names == {AllNames[i] : i \in 1..NNames}

\* the working directory of the process (pathlib resolves against it)
Cwd == <<"/", "w">>

RECURSIVE Canon(_, _)
Canon(p, acc) ==
    IF p = <<>> THEN acc
    ELSE IF Head(p) = "." THEN Canon(Tail(p), acc)
    ELSE IF Head(p) = ".."
         THEN Canon(Tail(p), IF Len(acc) > 1 THEN SubSeq(acc, 1, Len(acc) - 1) ELSE acc)
    ELSE Canon(Tail(p), Append(acc, Head(p)))

\* pathlib.Path.resolve(): absolute, without "." and ".." components
Resolve(p) ==
    IF p # <<>> /\ Head(p) = "/" THEN Canon(Tail(p), <<"/">>)
    ELSE Canon(p, Cwd)

\* the spellings of one file name that callers can hand in
RawPaths ==
    UNION {{<<n>>, <<".", n>>, Cwd \o <<n>>} : n \in Names}

SubsetsUpTo(S, k) == {x \in SUBSET S : Cardinality(x) <= k}

(***************************************************************************)
(* CommitTarget                                                            *)
(***************************************************************************)
NoTarget == [none |-> TRUE]

Target(a, u, d) == [added |-> a, updated |-> u, deleted |-> d]

EmptyTarget == Target({}, {}, {})

\* CommitTarget.normalize
Normalize(t) ==
    Target({Resolve(p) : p \in t.added},
           {Resolve(p) : p \in t.updated},
           {Resolve(p) : p \in t.deleted})

\* a validate that misses the overlap of updated and deleted
ValidateErrorsTwoPairs(t) ==
    {<<p, "added", "updated">> : p \in t.added \cap t.updated}
    \cup {<<p, "updated", "deleted">> : p \in t.updated \cap t.deleted}

\* CommitTarget.validate: the error entries it collects, one per path and
\* pair of categories
ValidateErrors(t) ==
    {<<p, "added", "updated">> : p \in t.added \cap t.updated}
    \cup {<<p, "added", "deleted">> : p \in t.added \cap t.deleted}
    \cup {<<p, "updated", "deleted">> : p \in t.updated \cap t.deleted}

\* validate raises CommitTargetError iff it collected an error
ValidateRaises(t) == ValidateErrors(t) # {}

\* CommitTarget(added, updated, deleted): __post_init__ normalizes, then
\* validates; a raise leaves no object
NewCommitTarget(a, u, d) ==
    LET t == Normalize(Target(a, u, d))
    IN  IF ValidateRaises(t)
        THEN [raised |-> TRUE, obj |-> NoTarget]
        ELSE [raised |-> FALSE, obj |-> t]

\* an update that does not merge the deleted set
UpdateSetsKeepDeleted(self, other) ==
    Target(self.added \cup other.added,
           self.updated \cup other.updated,
           self.deleted)

\* an update in which a path the receiver adds is not taken over as deleted
UpdateSetsAddedWins(self, other) ==
    Target(self.added \cup other.added,
           self.updated \cup other.updated,
           (self.deleted \cup other.deleted) \ self.added)

\* CommitTarget.update: the in-place unions, made before validate runs
UpdateSets(self, other) ==
    Target(self.added \cup other.added,
           self.updated \cup other.updated,
           self.deleted \cup other.deleted)

\* an update that merges without validating
UpdateTargetUnchecked(self, other) ==
    [raised |-> FALSE, obj |-> UpdateSets(self, other)]

\* CommitTarget.update: the receiver after the call and whether it raised
UpdateTarget(self, other) ==
    LET t == UpdateSets(self, other)
    IN  [raised |-> ValidateRaises(t), obj |-> t]

\* an emptiness test that looks at added alone
IsEmptyAddedOnly(t) == t.added = {}

\* CommitTarget.is_empty
IsEmpty(t) == ~(t.added # {} \/ t.updated # {} \/ t.deleted # {})

(***************************************************************************)
(* External links, their log records and the classifier                    *)
(***************************************************************************)
\* urls in ascending string order: "http://a" < "http://b" < "https://a"
UrlList ==
    << [scheme |-> "http", rest |-> "a"],
       [scheme |-> "http", rest |-> "b"],
       [scheme |-> "https", rest |-> "a"] >>

Urls == {UrlList[i] : i \in 1..Len(UrlList)}

\* position of a url in the string order
UrlRank(u) == CHOOSE i \in 1..Len(UrlList) : UrlList[i] = u

\* ExternalLink(url, locations)
ExternalLink(url, locations) == [url |-> url, locations |-> locations]

\* ExternalLinkLog(url, locations, access_timestamp, response, is_saved)
ExternalLinkLog(url, locations, ts, response, saved) ==
    [url |-> url, locations |-> locations, access_timestamp |-> ts,
     response |-> response, is_saved |-> saved]

\* the three shapes of ExternalLinkLog.response, tagged by kind
Excluded == [kind |-> "excluded"]
ResponseLog(status, ct) ==
    [kind |-> "ResponseLog", status_code |-> status, content_type |-> ct]
RequestError(type, msg) ==
    [kind |-> "RequestError", error_type |-> type, message |-> msg]

IsResponseLog(r) == r.kind = "ResponseLog"
IsRequestError(r) == r.kind = "RequestError"

RECURSIVE SeqToSet(_)
SeqToSet(s) == IF s = <<>> THEN {} ELSE {Head(s)} \cup SeqToSet(Tail(s))

UrlsOf(s) == {s[i].url : i \in 1..Len(s)}

NoDuplicateUrl(s) == \A i, j \in 1..Len(s) : s[i].url = s[j].url => i = j

\* the entry a dict keyed by url keeps for url: the last one inserted
LastWith(s, url) ==
    s[CHOOSE i \in 1..Len(s) :
        /\ s[i].url = url
        /\ \A j \in 1..Len(s) : s[j].url = url => j <= i]

\* a list of keys instead of a dict: a repeated url stays twice
KeysWithDuplicates(urls, acc) == acc \o urls

\* the keys of a dict in insertion order: first occurrences of the urls
RECURSIVE DictKeys(_, _)
DictKeys(urls, acc) ==
    IF urls = <<>> THEN acc
    ELSE IF \E i \in 1..Len(acc) : acc[i] = Head(urls)
         THEN DictKeys(Tail(urls), acc)
         ELSE DictKeys(Tail(urls), Append(acc, Head(urls)))

\* _classify_external_links: the dict of _LinkLogPair, as its key order
ClassifyPairs(links, previous_logs) ==
    DictKeys([i \in 1..Len(links) |-> links[i].url]
             \o [i \in 1..Len(previous_logs) |-> previous_logs[i].url], <<>>)

\* a carried record that keeps its old locations
CarriedLogStale(link, log) == log

\* the carried record: a copy of the previous record with the locations of
\* the current link
CarriedLog(link, log) == [log EXCEPT !.locations = link.locations]

RECURSIVE ClassifyLoop(_, _, _, _)
ClassifyLoop(keys, links, previous_logs, acc) ==
    IF keys = <<>> THEN acc
    ELSE
        LET url == Head(keys)
            hasLink == url \in UrlsOf(links)
            hasLog == url \in UrlsOf(previous_logs)
            next ==
                IF ~hasLog
                THEN IF hasLink
                     THEN [acc EXCEPT !.new_links =
                              Append(@, LastWith(links, url))]
                     ELSE acc
                ELSE IF ~hasLink
                     THEN [acc EXCEPT !.deleted_links =
                              Append(@, LastWith(previous_logs, url))]
                     ELSE [acc EXCEPT !.logs =
                              Append(@, CarriedLog(LastWith(links, url),
                                                   LastWith(previous_logs, url)))]
        IN  ClassifyLoop(Tail(keys), links, previous_logs, next)

\* a classifier that carries the records that are no longer referenced too
ClassifyCarryUnreferenced(links, previous_logs) ==
    LET r == ClassifyLoop(ClassifyPairs(links, previous_logs), links,
                          previous_logs,
                          [new_links |-> <<>>, logs |-> <<>>,
                           deleted_links |-> <<>>])
    IN  [r EXCEPT !.logs = @ \o r.deleted_links]

\* a classifier that forgets the records that are no longer referenced
ClassifyDropDeleted(links, previous_logs) ==
    [ClassifyLoop(ClassifyPairs(links, previous_logs), links, previous_logs,
                  [new_links |-> <<>>, logs |-> <<>>, deleted_links |-> <<>>])
        EXCEPT !.deleted_links = <<>>]

\* _classify_external_links(links, previous_logs)
ClassifyExternalLinks(links, previous_logs) ==
    ClassifyLoop(ClassifyPairs(links, previous_logs), links, previous_logs,
                 [new_links |-> <<>>, logs |-> <<>>, deleted_links |-> <<>>])

NotCalled == [called |-> FALSE]

\* the location lists a link or a record can carry
LocationLists == {<<1>>, <<2>>}

ClLinkValues == {ExternalLink(u, l) : u \in Urls, l \in LocationLists}

ClLogValues ==
    {ExternalLinkLog(u, l, 7, ResponseLog(200, "text/html"), TRUE) :
        u \in Urls, l \in LocationLists}
    \cup {ExternalLinkLog(u, l, 0, Excluded, FALSE) :
        u \in Urls, l \in LocationLists}

SeqsUpTo(S, n) == UNION {[1..k -> S] : k \in 0..n}

(***************************************************************************)
(* Pages and the page diff                                                 *)
(***************************************************************************)
\* a table that leaves the percent sign as it is
EscapeCharPercentKept(c) ==
    CASE c = " " -> <<"_">>
      [] c = "#" -> <<"%", "2", "3">>
      [] c = "/" -> <<"%", "2", "F">>
      [] OTHER -> <<c>>

\* _escape_filename: str.translate with the four-entry table, one pass
EscapeChar(c) ==
    CASE c = " " -> <<"_">>
      [] c = "#" -> <<"%", "2", "3">>
      [] c = "%" -> <<"%", "2", "5">>
      [] c = "/" -> <<"%", "2", "F">>
      [] OTHER -> <<c>>

RECURSIVE EscapeFilename(_)
EscapeFilename(text) ==
    IF text = <<>> THEN <<>>
    ELSE EscapeChar(Head(text)) \o EscapeFilename(Tail(text))

\* a BackupPageJSON: title, updated timestamp and the page's lines
Page(title, updated, lines) ==
    [title |-> title, updated |-> updated, lines |-> lines]

\* BackupData: the pages of one snapshot; NoData stands for None
BackupData(pages) == [pages |-> pages]

NoData == [none |-> TRUE]

\* the previous pages as a dict keyed by escaped title: insertion-ordered
\* keys, the last page of a key wins
PageKeys(pages) ==
    DictKeys([i \in 1..Len(pages) |-> EscapeFilename(pages[i].title)], <<>>)

LastPageWithKey(pages, key) ==
    pages[CHOOSE i \in 1..Len(pages) :
        /\ EscapeFilename(pages[i].title) = key
        /\ \A j \in 1..Len(pages) :
              EscapeFilename(pages[j].title) = key => j <= i]

PagesDict(pages) ==
    LET keys == PageKeys(pages)
    IN  <<>> \o [i \in 1..Len(keys) |->
                    [key |-> keys[i], page |-> LastPageWithKey(pages, keys[i])]]

DictHas(dict, key) == \E i \in 1..Len(dict) : dict[i].key = key
DictGet(dict, key) == dict[CHOOSE i \in 1..Len(dict) : dict[i].key = key].page
DictDel(dict, key) == SelectSeq(dict, LAMBDA e : e.key # key)

\* a comparison of the updated timestamps only
PageChangedByTimestamp(page, previous) == page.updated # previous.updated

\* the comparison page != pages[title]
PageChanged(page, previous) == page # previous

RECURSIVE DiffLoop(_, _, _)
DiffLoop(current, pages, acc) ==
    IF current = <<>>
    THEN [acc EXCEPT !.deleted =
            @ \o [i \in 1..Len(pages) |-> pages[i].page]]
    ELSE
        LET page == Head(current)
            title == EscapeFilename(page.title)
        IN  IF ~DictHas(pages, title)
            THEN DiffLoop(Tail(current), pages,
                          [acc EXCEPT !.added = Append(@, page)])
            ELSE DiffLoop(Tail(current), DictDel(pages, title),
                          IF PageChanged(page, DictGet(pages, title))
                          THEN [acc EXCEPT !.updated = Append(@, page)]
                          ELSE acc)

\* _diff_pages(current, previous) -> PagesDiff
DiffPages(current, previous) ==
    IF previous = NoData
    THEN [added |-> current.pages, updated |-> <<>>, deleted |-> <<>>]
    ELSE DiffLoop(current.pages, PagesDict(previous.pages),
                  [added |-> <<>>, updated |-> <<>>, deleted |-> <<>>])

\* titles: two of them differ only by space against underscore, one needs
\* a multi-character escape
Titles == {<<"x">>, <<"a", " ", "b">>, <<"a", "_", "b">>, <<"#">>}

DfPageValues ==
    {Page(t, v[1], v[2]) :
        t \in Titles, v \in {<<1, "l1">>, <<1, "l2">>, <<2, "l2">>}}

\* within one snapshot a title is a unique key after escaping
UniqueKeys(pages) ==
    \A i, j \in 1..Len(pages) :
        EscapeFilename(pages[i].title) = EscapeFilename(pages[j].title) => i = j

\* the page lists of a snapshot; the schema of the backup file does not
\* keep two titles of one list from escaping to one file name
DfSnapshots == {BackupData(s) : s \in SeqsUpTo(DfPageValues, MaxPages)}

\* _page_to_file_path, within the pages directory: "{filename}.json"
PageToFilePath(page) == EscapeFilename(page.title) \o <<".json">>

\* _update_pages: the CommitTarget built from the paths of the three lists
UpdatePages(pages_diff) ==
    LET PathsOf(pages) == {PageToFilePath(pages[i]) : i \in 1..Len(pages)}
        t == Target(PathsOf(pages_diff.added), PathsOf(pages_diff.updated),
                    PathsOf(pages_diff.deleted))
    IN  IF ValidateRaises(t)
        THEN [raised |-> TRUE, obj |-> NoTarget]
        ELSE [raised |-> FALSE, obj |-> t]

(***************************************************************************)
(* The archival run: configuration, remote outcomes, log directory, links  *)
(* directory                                                               *)
(***************************************************************************)
\* regular expressions of the configuration and what re.match finds
ContentTypePatterns == {"image/", "text/"}
ExcludedUrlPatterns == {"http://a"}

ContentTypeMatches(pattern, content_type) ==
    <<pattern, content_type>> \in {<<"text/", "text/html">>}

UrlMatches(pattern, url) ==
    <<pattern, url>> \in {<<"http://a", [scheme |-> "http", rest |-> "a"]>>}

\* response.headers.get("content-type") is None
NullContentType == "null"

\* what a GET of a url ends in: a response with a content type, a response
\* without one, or a timeout / transport error
RemoteOutcomes == {"text/html", NullContentType, "TimeoutError"}
Unknown == "unknown"

\* keep_logs: "all" or an integer
KeepAll == [all |-> TRUE]
KeepN(n) == [all |-> FALSE, n |-> n]

\* ExternalLinkConfig: the fields the run reads
Configs ==
    [content_types : SUBSET ContentTypePatterns,
     excluded_urls : SUBSET ExcludedUrlPatterns,
     allways_request_all_links : BOOLEAN,
     keep_logs : {KeepAll} \cup {KeepN(n) : n \in 0..1},
     keep_deleted_links : BOOLEAN,
     use_git_lfs : BOOLEAN]

\* the values one field of the configuration can take
ConfigValues(f) == {c[f] : c \in Configs}

NoFile == [exists |-> FALSE]

\* git_directory.joinpath(config.save_directory)
LinksRoot == <<"repo", "links">>

\* _LinksDirectory.file_path: the url without "http://" / "https://"
FilePath(url) == LinksRoot \o <<url.rest>>

\* _LinksDirectory.file_list_path, gitattributes_path
FileListPath == LinksRoot \o <<"list.json">>
GitattributesPath == LinksRoot \o <<".gitattributes">>

\* a variant that leaves the list in the order it has
KeepOrder(s) == s

\* list.sort(key=lambda log: log.url): insertion into url order
RECURSIVE InsertByUrl(_, _)
InsertByUrl(sorted, x) ==
    IF sorted = <<>> THEN <<x>>
    ELSE IF UrlRank(x.url) < UrlRank(Head(sorted).url)
         THEN <<x>> \o sorted
         ELSE <<Head(sorted)>> \o InsertByUrl(Tail(sorted), x)

RECURSIVE SortByUrl(_)
SortByUrl(s) ==
    IF s = <<>> THEN <<>>
    ELSE InsertByUrl(SortByUrl(SubSeq(s, 1, Len(s) - 1)), s[Len(s)])

\* sorted(urls)
RECURSIVE SortedUrls(_)
SortedUrls(S) ==
    IF S = {} THEN <<>>
    ELSE LET m == CHOOSE u \in S : \A v \in S : UrlRank(u) <= UrlRank(v)
         IN  <<m>> \o SortedUrls(S \ {m})

\* the order of str on the patterns
PatternRank(pattern) == IF pattern = "image/" THEN 1 ELSE 2

\* sorted(content_types)
RECURSIVE SortedPatterns(_)
SortedPatterns(S) ==
    IF S = {} THEN <<>>
    ELSE LET m == CHOOSE x \in S : \A y \in S : PatternRank(x) <= PatternRank(y)
         IN  <<m>> \o SortedPatterns(S \ {m})

\* Backup.external_links(): one link per url, sorted by url; the locations
\* of a url depend on the snapshot
SnapshotLinks(timestamp, urls) ==
    LET sorted == SortedUrls(urls)
    IN  <<>> \o [i \in 1..Len(sorted) |->
                    ExternalLink(sorted[i], <<timestamp>>)]

\* _LogDirectory.find_all: the timestamps of the log files, old to new
LogTimestamps(logFiles) == {t \in DOMAIN logFiles : logFiles[t] # NoFile}

\* a variant that also accepts the log of T itself
FindLatestOrEqual(logFiles, timestamp) ==
    LET older == {t \in LogTimestamps(logFiles) : timestamp >= t}
    IN  IF older = {} THEN 0
        ELSE CHOOSE t \in older : \A x \in older : x <= t

\* _LogDirectory.find_latest(timestamp=T): the newest log older than T
FindLatest(logFiles, timestamp) ==
    LET older == {t \in LogTimestamps(logFiles) : timestamp > t}
    IN  IF older = {} THEN 0
        ELSE CHOOSE t \in older : \A x \in older : x <= t

\* _LogDirectory.load_latest(timestamp=T) or []
LoadLatest(logFiles, timestamp) ==
    LET t == FindLatest(logFiles, timestamp)
    IN  IF t = 0 THEN <<>> ELSE logFiles[t].logs

\* previous_logs of save_external_links: load_latest(timestamp=T) or [],
\* and [] when allways_request_all_links is set
PreviousLogs(logFiles, timestamp, allways_request_all_links) ==
    IF ~allways_request_all_links
    THEN LoadLatest(logFiles, timestamp) ELSE <<>>

\* a variant that keeps the oldest log files
CleanKeepOldest(logFiles, keep) ==
    LET ts == LogTimestamps(logFiles)
        kept == {t \in ts : Cardinality({x \in ts : x < t}) < keep}
    IN  [t \in DOMAIN logFiles |->
            IF t \in kept THEN logFiles[t] ELSE NoFile]

\* _LogDirectory.clean(keep): the log files that stay
Clean(logFiles, keep) ==
    IF keep >= 0
    THEN LET ts == LogTimestamps(logFiles)
             kept == {t \in ts : Cardinality({x \in ts : x > t}) < keep}
         IN  [t \in DOMAIN logFiles |->
                 IF t \in kept THEN logFiles[t] ELSE NoFile]
    ELSE logFiles

\* a check that excludes no url
IsExcludedNever(config, url) == FALSE

\* the url is excluded: any(url.match(link.url) ...)
IsExcluded(config, url) ==
    \E pattern \in config.excluded_urls : UrlMatches(pattern, url)

\* the content type of a response is one the configuration archives
IsArchived(content_types, content_type) ==
    /\ content_type # NullContentType
    /\ \E pattern \in content_types : ContentTypeMatches(pattern, content_type)

\* a variant that marks every record of an answered or failed request saved
RequestSavesAlways(link, config, outcome, now) ==
    IF IsExcluded(config, link.url)
    THEN ExternalLinkLog(link.url, link.locations, 0, Excluded, FALSE)
    ELSE IF outcome = "TimeoutError"
    THEN ExternalLinkLog(link.url, link.locations, now,
                         RequestError("TimeoutError", ""), TRUE)
    ELSE ExternalLinkLog(link.url, link.locations, now,
                         ResponseLog(200, outcome), TRUE)

\* _request(session, index, link, config, logger): the record of one link,
\* given what the GET ends in and the wall clock
Request(link, config, outcome, now) ==
    IF IsExcluded(config, link.url)
    THEN ExternalLinkLog(link.url, link.locations, 0, Excluded, FALSE)
    ELSE IF outcome = "TimeoutError"
    THEN ExternalLinkLog(link.url, link.locations, now,
                         RequestError("TimeoutError", ""), FALSE)
    ELSE ExternalLinkLog(link.url, link.locations, now,
                         ResponseLog(200, outcome),
                         IsArchived(config.content_types, outcome))

\* the links of a list that reach session.get
Requested(links, config) ==
    {links[i].url : i \in {j \in 1..Len(links) : ~IsExcluded(config, links[j].url)}}

\* _request_logs(links, previous_logs, ...): classify, request the new
\* links in the shuffled order, append the carried records, sort by url
RequestLogs(links, previous_logs, config, outcomes, now, order) ==
    LET classified == ClassifyExternalLinks(links, previous_logs)
        shuffled == <<>> \o [i \in 1..Len(classified.new_links) |->
                                classified.new_links[order[i]]]
        fetched == <<>> \o [i \in 1..Len(shuffled) |->
                                Request(shuffled[i], config,
                                        outcomes[shuffled[i].url], now)]
    IN  [logs |-> SortByUrl(fetched \o classified.logs),
         requested |-> Requested(shuffled, config),
         written |-> {FilePath(fetched[i].url) :
                        i \in {j \in 1..Len(fetched) : fetched[j].is_saved}}]

\* ExternalLinkLog.link
LinkOf(log) == ExternalLink(log.url, log.locations)

\* a variant that re-requests a url although the index lists it
ReRequestTargetsIgnoringSaved(logs, saved_urls, content_types) ==
    LET Matches(log) ==
            /\ IsResponseLog(log.response)
            /\ IsArchived(content_types, log.response.content_type)
        targets == SelectSeq(logs, Matches)
    IN  [i \in 1..Len(targets) |-> LinkOf(targets[i])]

\* a variant that re-requests every answered url the index does not list,
\* whatever its content type
ReRequestTargetsAnyContentType(logs, saved_urls, content_types) ==
    LET Answered(log) ==
            /\ log.url \notin saved_urls
            /\ IsResponseLog(log.response)
        targets == SelectSeq(logs, Answered)
    IN  [i \in 1..Len(targets) |-> LinkOf(targets[i])]

\* _re_request_targets(logs, saved_urls, content_types)
RECURSIVE ReRequestTargets(_, _, _)
ReRequestTargets(logs, saved_urls, content_types) ==
    IF logs = <<>> THEN <<>>
    ELSE
        LET log == Head(logs)
            rest == ReRequestTargets(Tail(logs), saved_urls, content_types)
        IN  IF log.url \in saved_urls THEN rest
            ELSE IF /\ IsResponseLog(log.response)
                    /\ IsArchived(content_types, log.response.content_type)
                 THEN <<LinkOf(log)>> \o rest
                 ELSE rest

\* the urls of the records with is_saved
SavedUrls(logs) == {logs[i].url : i \in {j \in 1..Len(logs) : logs[j].is_saved}}

\* a variant that writes both lists of list.json in descending order
FileListDescending(content_types, urls) ==
    LET Reverse(q) == [i \in 1..Len(q) |-> q[Len(q) + 1 - i]]
    IN  [exists |-> TRUE,
         content_types |-> Reverse(SortedPatterns(content_types)),
         urls |-> Reverse(SortedUrls(urls))]

\* _LinksDirectory.save_file_list(content_types, urls): list.json
FileList(content_types, urls) ==
    [exists |-> TRUE,
     content_types |-> SortedPatterns(content_types),
     urls |-> SortedUrls(urls)]

\* a variant that stages the archived files alone
CommitSetsNoIndex(config, logs, previous_list, listExists, gitattributesExists) ==
    LET saved_files == {FilePath(u) : u \in SavedUrls(logs)}
        previous_saved_files ==
            IF previous_list = NoFile THEN {}
            ELSE {FilePath(u) : u \in SeqToSet(previous_list.urls)}
    IN  [added |-> (saved_files \ previous_saved_files)
                   \cup (IF config.use_git_lfs /\ ~gitattributesExists
                         THEN {GitattributesPath} ELSE {}),
         updated |-> saved_files \cap previous_saved_files,
         deleted |-> IF ~config.keep_deleted_links
                     THEN previous_saved_files \ saved_files ELSE {}]

\* a variant that always stages the index file as added
CommitSetsIndexAdded(config, logs, previous_list, listExists, gitattributesExists) ==
    LET saved_files == {FilePath(u) : u \in SavedUrls(logs)}
        previous_saved_files ==
            IF previous_list = NoFile THEN {}
            ELSE {FilePath(u) : u \in SeqToSet(previous_list.urls)}
    IN  [added |-> (saved_files \ previous_saved_files)
                   \cup {FileListPath}
                   \cup (IF config.use_git_lfs /\ ~gitattributesExists
                         THEN {GitattributesPath} ELSE {}),
         updated |-> saved_files \cap previous_saved_files,
         deleted |-> IF ~config.keep_deleted_links
                     THEN previous_saved_files \ saved_files ELSE {}]

\* a variant that stages every saved file as added
CommitSetsAllAdded(config, logs, previous_list, listExists, gitattributesExists) ==
    LET saved_files == {FilePath(u) : u \in SavedUrls(logs)}
        previous_saved_files ==
            IF previous_list = NoFile THEN {}
            ELSE {FilePath(u) : u \in SeqToSet(previous_list.urls)}
    IN  [added |-> saved_files
                   \cup (IF listExists THEN {} ELSE {FileListPath})
                   \cup (IF config.use_git_lfs /\ ~gitattributesExists
                         THEN {GitattributesPath} ELSE {}),
         updated |-> IF listExists THEN {FileListPath} ELSE {},
         deleted |-> IF ~config.keep_deleted_links
                     THEN previous_saved_files \ saved_files ELSE {}]

\* _commit_target: the sets before the files are unlinked
CommitSets(config, logs, previous_list, listExists, gitattributesExists) ==
    LET saved_files == {FilePath(u) : u \in SavedUrls(logs)}
        previous_saved_files ==
            IF previous_list = NoFile THEN {}
            ELSE {FilePath(u) : u \in SeqToSet(previous_list.urls)}
    IN  [added |-> (saved_files \ previous_saved_files)
                   \cup (IF listExists THEN {} ELSE {FileListPath})
                   \cup (IF config.use_git_lfs /\ ~gitattributesExists
                         THEN {GitattributesPath} ELSE {}),
         updated |-> (saved_files \cap previous_saved_files)
                     \cup (IF listExists THEN {FileListPath} ELSE {}),
         deleted |-> IF ~config.keep_deleted_links
                     THEN previous_saved_files \ saved_files ELSE {}]

(***************************************************************************)
(* State                                                                   *)
(***************************************************************************)
VARIABLES
    ctOp,       \* the last CommitTarget operation: "init", "construct", "update"
    ctSelf,     \* the CommitTarget object held by the caller, or NoTarget
    ctArgs,     \* the arguments of the last operation
    ctRaised    \* whether the last operation raised CommitTargetError

ctVars == <<ctOp, ctSelf, ctArgs, ctRaised>>

VARIABLES
    clLinks,    \* classifier input: list[ExternalLink]
    clPrevious, \* classifier input: list[ExternalLinkLog]
    clResult    \* _ClassifiedExternalLinks returned, or NotCalled

clVars == <<clLinks, clPrevious, clResult>>

VARIABLES
    dfCurrent,  \* page diff input: the pages of the current snapshot
    dfPrevious, \* page diff input: the pages of the previous snapshot, or NoData
    dfResult,   \* PagesDiff returned, or NotCalled
    dfTarget    \* what _update_pages ended in, or NotCalled

dfVars == <<dfCurrent, dfPrevious, dfResult, dfTarget>>

VARIABLES
    config,        \* the ExternalLinkConfig in force
    remote,        \* what a GET of each url ends in, Unknown until requested
    snapshots,     \* the urls referenced by the snapshot of each timestamp
    logFiles,      \* log directory: external_link_{timestamp}.json
    listJson,      \* links directory: list.json, the saved-links index
    files,         \* links directory: the archived files on disk
    gitattributes, \* links directory: .gitattributes exists
    lastRun,       \* what the last save_external_links call read, did and returned
    changed,       \* configuration or remote content edited since the last run
    nRuns,         \* runs made so far; also drives the wall clock
    nChanges       \* edits made so far

runVars == <<config, remote, snapshots, logFiles, listJson, files,
             gitattributes, lastRun, changed, nRuns, nChanges>>

VARIABLES
    ftLinks,    \* pipeline input: the new links in dispatch (shuffled) order
    ftCarried,  \* the carried records _request_logs appends to the result
    ftConfig,   \* parallel_limit, content_types and excluded_urls in force
    ftOutcome,  \* what the GET of each url ends in
    ftMain,     \* _request_logs: "idle", "running" (in gather), "returned",
                \* "raised" (an exception left gather)
    ftPc,       \* per task: "queued", "get", "read", "sleep", "done", "raised"
    ftSem,      \* the value of the asyncio.Semaphore
    ftClock,    \* int(time.time())
    ftStart,    \* per task: access_timestamp taken when its request began
    ftRecord,   \* per task: the ExternalLinkLog it returned, or NoRecord
    ftGets,     \* the urls handed to session.get, in the order of the calls
    ftDisk,     \* links directory: the state of each archived file
    ftDone,     \* the tasks in the order they completed
    ftLogs,     \* the list _request_logs returned
    ftSaved     \* the log of the run and list.json, as save_external_links
                \* wrote them from that list

ftVars == <<ftLinks, ftCarried, ftConfig, ftOutcome, ftMain, ftPc, ftSem,
            ftClock, ftStart, ftRecord, ftGets, ftDisk, ftDone, ftLogs,
            ftSaved>>

VARIABLES
    plFiles,     \* log directory of one lookup: external_link_{timestamp}.json
    plTimestamp, \* backup.timestamp of the run
    plForced,    \* config.allways_request_all_links
    plResult     \* previous_logs as the run holds it, or NotCalled

plVars == <<plFiles, plTimestamp, plForced, plResult>>

VARIABLES
    cbConfig,   \* backup_start_date (0: None), external_link.enabled,
                \* git.empty_initial_commit is set
    cbStorage,  \* the timestamps of the snapshots in the backup archive
    cbGit,      \* the commits of the branch, old to new
    cbTargets,  \* backup_targets of commit_backups
    cbPos,      \* the position of the loop in backup_targets
    cbPc,       \* "start", "staging", "staged", "done", "raised"
    cbStaged,   \* the CommitTarget staging_backup returned, or NoTarget
    cbEvents    \* what the pass did so far, in order

cbVars == <<cbConfig, cbStorage, cbGit, cbTargets, cbPos, cbPc, cbStaged,
            cbEvents>>

VARIABLES
    esTitle,    \* a page title
    esEdit,     \* how a second title differs from it
    esNames     \* _escape_filename of the two titles, <<>> before the calls

esVars == <<esTitle, esEdit, esNames>>

VARIABLES
    prBefore,   \* the links directory when _commit_target starts to unlink
    prFs,       \* the links directory now: its directories and its files
    prDeleted,  \* the set deleted of _commit_target
    prPc        \* "idle", "start", "returned", "raised" (FileNotFoundError)

prVars == <<prBefore, prFs, prDeleted, prPc>>

VARIABLES
    alHeap,     \* the objects in memory, by identity; Free where there is none
    alBefore,   \* the objects as they were when the classifier was called
    alLinks,    \* classifier input: the identities of the ExternalLink objects
    alPrevious, \* classifier input: the identities of the ExternalLinkLog objects
    alResult,   \* _ClassifiedExternalLinks returned, as identities, or NotCalled
    alPc        \* "idle", "start", "classified", "changed"

alVars == <<alHeap, alBefore, alLinks, alPrevious, alResult, alPc>>

vars == <<ctOp, ctSelf, ctArgs, ctRaised, clLinks, clPrevious, clResult,
          dfCurrent, dfPrevious, dfResult, dfTarget,
          config, remote, snapshots, logFiles, listJson, files,
          gitattributes, lastRun, changed, nRuns, nChanges,
          ftLinks, ftCarried, ftConfig, ftOutcome, ftMain, ftPc, ftSem,
          ftClock, ftStart, ftRecord, ftGets, ftDisk, ftDone, ftLogs,
          ftSaved,
          plFiles, plTimestamp, plForced, plResult,
          cbConfig, cbStorage, cbGit, cbTargets, cbPos, cbPc, cbStaged,
          cbEvents, esTitle, esEdit, esNames,
          prBefore, prFs, prDeleted, prPc,
          alHeap, alBefore, alLinks, alPrevious, alResult, alPc>>

CtIdle ==
    /\ ctOp = "init"
    /\ ctSelf = NoTarget
    /\ ctArgs = <<>>
    /\ ctRaised = FALSE

ClIdle ==
    /\ clLinks = <<>>
    /\ clPrevious = <<>>
    /\ clResult = NotCalled

DfIdle ==
    /\ dfCurrent = BackupData(<<>>)
    /\ dfPrevious = NoData
    /\ dfResult = NotCalled
    /\ dfTarget = NotCalled

\* the default ExternalLinkConfig
DefaultConfig ==
    [content_types |-> {},
     excluded_urls |-> {},
     allways_request_all_links |-> FALSE,
     keep_logs |-> KeepAll,
     keep_deleted_links |-> FALSE,
     use_git_lfs |-> FALSE]

Timestamps == 1..MaxT

NoRun ==
    [timestamp |-> 0, repeat |-> FALSE, rerun |-> FALSE, raised |-> "none",
     target |-> NoTarget, carried |-> {}, handed |-> {}, requested |-> {}, first |-> {},
     written |-> {}, logs |-> <<>>, produced |-> <<>>,
     found |-> {},
     previous_list |-> NoFile, config |-> DefaultConfig]

\* empty log directory, empty links directory, nothing requested yet
RunStart ==
    /\ remote = [u \in Urls |-> Unknown]
    /\ snapshots = [t \in Timestamps |-> NoData]
    /\ logFiles = [t \in Timestamps |-> NoFile]
    /\ listJson = NoFile
    /\ files = {}
    /\ gitattributes = FALSE
    /\ lastRun = NoRun
    /\ changed = FALSE
    /\ nRuns = 0
    /\ nChanges = 0

RunIdle == config = DefaultConfig /\ RunStart

\* the part of ExternalLinkConfig the fetch pipeline reads, at its defaults
\* but for parallel_limit, which is at its minimum
DefaultFetchConfig ==
    [parallel_limit |-> 1, content_types |-> {}, excluded_urls |-> {}]

\* the files the links directory can hold
LinkPaths == {FilePath(u) : u \in Urls}

\* neither the log of the run nor list.json was written
NotSaved == [log |-> NoFile, list |-> NoFile]

\* no pipeline was started
FtIdle ==
    /\ ftLinks = <<>>
    /\ ftCarried = <<>>
    /\ ftConfig = DefaultFetchConfig
    /\ ftOutcome = [u \in Urls |-> "TimeoutError"]
    /\ ftMain = "idle"
    /\ ftPc = <<>>
    /\ ftSem = 0
    /\ ftClock = 0
    /\ ftStart = <<>>
    /\ ftRecord = <<>>
    /\ ftGets = <<>>
    /\ ftDisk = [p \in LinkPaths |-> "absent"]
    /\ ftDone = <<>>
    /\ ftLogs = <<>>
    /\ ftSaved = NotSaved

Stamps == 1..MaxStamp

PlIdle ==
    /\ plFiles = [t \in Stamps |-> NoFile]
    /\ plTimestamp = 0
    /\ plForced = FALSE
    /\ plResult = NotCalled

CbIdle ==
    /\ cbConfig = [start |-> 0, links |-> FALSE, initial |-> FALSE]
    /\ cbStorage = {}
    /\ cbGit = <<>>
    /\ cbTargets = <<>>
    /\ cbPos = 0
    /\ cbPc = "idle"
    /\ cbStaged = NoTarget
    /\ cbEvents = <<>>

NoEdit == [kind |-> "none", pos |-> 0]

EsIdle ==
    /\ esTitle = <<>>
    /\ esEdit = NoEdit
    /\ esNames = <<>>

\* a directory tree: the paths of its directories and of its files
Tree(directories, regular) == [dirs |-> directories, files |-> regular]

PrIdle ==
    /\ prBefore = Tree({}, {})
    /\ prFs = Tree({}, {})
    /\ prDeleted = {}
    /\ prPc = "idle"

AlIdle ==
    /\ alHeap = <<>>
    /\ alBefore = <<>>
    /\ alLinks = <<>>
    /\ alPrevious = <<>>
    /\ alResult = NotCalled
    /\ alPc = "idle"

(***************************************************************************)
(* Specification of the CommitTarget operations                            *)
(***************************************************************************)
CtInputs == SubsetsUpTo(RawPaths, MaxSetSize)

\* the CommitTargets that construction can produce from the inputs
CtValidTargets ==
    {r.obj : r \in {x \in {NewCommitTarget(i[1], i[2], i[3]) :
                                i \in CtInputs \X CtInputs \X CtInputs} :
                        ~x.raised}}

\* target = CommitTarget(added=a, updated=u, deleted=d)
CtConstruct ==
    /\ ctOp = "init"
    /\ \E a \in CtInputs, u \in CtInputs, d \in CtInputs :
        LET r == NewCommitTarget(a, u, d)
        IN  /\ ctOp' = "construct"
            /\ ctArgs' = <<a, u, d>>
            /\ ctSelf' = r.obj
            /\ ctRaised' = r.raised

\* target.update(other), other being any CommitTarget that was constructed
CtUpdate ==
    /\ ctSelf # NoTarget
    /\ \E other \in CtValidTargets :
        LET r == UpdateTarget(ctSelf, other)
        IN  /\ ctOp' = "update"
            /\ ctArgs' = <<ctSelf, other>>
            /\ ctSelf' = r.obj
            /\ ctRaised' = r.raised

CtInit == CtIdle /\ ClIdle /\ DfIdle /\ RunIdle /\ FtIdle /\ PlIdle /\ CbIdle /\ EsIdle /\ PrIdle /\ AlIdle

CtNext ==
    (CtConstruct \/ CtUpdate) /\ UNCHANGED <<clVars, dfVars, runVars, ftVars, plVars, cbVars, esVars, prVars, alVars>>

SpecCT == CtInit /\ [][CtNext]_vars

(***************************************************************************)
(* Specification of one classifier call                                    *)
(***************************************************************************)
ClInit ==
    /\ AlIdle
    /\ PrIdle
    /\ EsIdle
    /\ CbIdle
    /\ PlIdle
    /\ CtIdle
    /\ DfIdle
    /\ RunIdle
    /\ FtIdle
    /\ clLinks \in SeqsUpTo(ClLinkValues, MaxLinks)
    /\ clPrevious \in SeqsUpTo(ClLogValues, MaxLinks)
    /\ clResult = NotCalled

\* classified_links = _classify_external_links(links, previous_logs)
ClClassify ==
    /\ clResult = NotCalled
    /\ clResult' = ClassifyExternalLinks(clLinks, clPrevious)
    /\ UNCHANGED <<clLinks, clPrevious, ctVars, dfVars, runVars, ftVars, plVars, cbVars, esVars, prVars, alVars>>

ClNext == ClClassify

SpecClassify == ClInit /\ [][ClNext]_vars

(***************************************************************************)
(* Specification of one page diff                                          *)
(***************************************************************************)
DfInit ==
    /\ AlIdle
    /\ PrIdle
    /\ EsIdle
    /\ CbIdle
    /\ PlIdle
    /\ CtIdle
    /\ ClIdle
    /\ RunIdle
    /\ FtIdle
    /\ dfCurrent \in DfSnapshots
    /\ dfPrevious \in DfSnapshots \cup {NoData}
    /\ dfResult = NotCalled
    /\ dfTarget = NotCalled

\* _update_pages: pages_diff = _diff_pages(current, previous), then the
\* CommitTarget of the page files
DfDiff ==
    /\ dfResult = NotCalled
    /\ dfResult' = DiffPages(dfCurrent, dfPrevious)
    /\ dfTarget' = UpdatePages(dfResult')
    /\ UNCHANGED <<dfCurrent, dfPrevious, ctVars, clVars, runVars, ftVars, plVars, cbVars, esVars, prVars, alVars>>

DfNext == DfDiff

SpecDiff == DfInit /\ [][DfNext]_vars

(***************************************************************************)
(* Specification of the archival runs                                      *)
(***************************************************************************)
UrlSets == SUBSET Urls

Orders(n) == {f \in [1..n -> 1..n] : \A i, j \in 1..n : f[i] = f[j] => i = j}

\* commit_target = save_external_links(backup, git_directory, config=config)
\* for the snapshot of one timestamp
SaveExternalLinks(timestamp) ==
    /\ nRuns < MaxRuns
    /\ \E urls \in (IF snapshots[timestamp] = NoData
                    THEN UrlSets ELSE {snapshots[timestamp].urls}) :
       \E previous_saved_list \in {listJson} :
       \* previous_logs: load_latest(timestamp=...) or [], unless all links
       \* are requested anyway
       \E previous_logs \in
            {PreviousLogs(logFiles, timestamp,
                          config.allways_request_all_links)} :
       \* a log for this timestamp exists: the re-request branch
       \E rerun \in {~config.allways_request_all_links
                       /\ logFiles[timestamp] # NoFile} :
       \E links \in
            {IF rerun
             THEN ReRequestTargets(
                     logFiles[timestamp].logs,
                     IF previous_saved_list # NoFile
                     THEN SeqToSet(previous_saved_list.urls) ELSE {},
                     config.content_types)
             ELSE SnapshotLinks(timestamp, urls)} :
       \E new_links \in
            {ClassifyExternalLinks(links, previous_logs).new_links} :
       \E unknown \in
            {{u \in Requested(new_links, config) : remote[u] = Unknown}} :
       \* random.shuffle and what the remote side answers
       \E order \in Orders(Len(new_links)),
          answers \in [unknown -> RemoteOutcomes] :
       \E outcomes \in
            {[u \in Urls |-> IF u \in unknown THEN answers[u] ELSE remote[u]]} :
       \E req \in
            {RequestLogs(links, previous_logs, config, outcomes,
                         nRuns + 1, order)} :
       \* the re-request branch drops what _request_logs returns
       \E logs \in {IF rerun THEN logFiles[timestamp].logs ELSE req.logs} :
       \E saved \in
            {IF rerun THEN logFiles
             ELSE [logFiles EXCEPT ![timestamp] =
                      [exists |-> TRUE, logs |-> logs]]} :
       \E written \in {files \cup req.written} :
       \E sets \in
            {CommitSets(config, logs, previous_saved_list, TRUE,
                        gitattributes)} :
       \E observed \in
            {[timestamp |-> timestamp,
              repeat |-> /\ lastRun.timestamp = timestamp
                         /\ lastRun.raised = "none"
                         /\ ~changed,
              rerun |-> rerun,
              raised |-> "none",
              target |-> NoTarget,
              carried |-> UrlsOf(previous_logs),
              handed |-> UrlsOf(new_links),
              requested |-> req.requested,
              first |-> unknown,
              written |-> req.written,
              logs |-> logs,
              produced |-> req.logs,
              found |-> LogTimestamps(saved),
              previous_list |-> previous_saved_list,
              config |-> config]} :
          /\ remote' = outcomes
          /\ snapshots' = [snapshots EXCEPT ![timestamp] = [urls |-> urls]]
          /\ logFiles' = IF config.keep_logs # KeepAll
                         THEN Clean(saved, config.keep_logs.n) ELSE saved
          /\ listJson' = FileList(config.content_types, SavedUrls(logs))
          /\ gitattributes' = (gitattributes \/ config.use_git_lfs)
          /\ IF sets.deleted \ written # {}
             THEN \* path.unlink() raises on a file that is not there; the
                  \* files unlinked before it are gone
                  /\ \E gone \in SUBSET (sets.deleted \cap written) :
                        files' = written \ gone
                  /\ lastRun' = [observed EXCEPT
                                    !.raised = "FileNotFoundError"]
             ELSE /\ files' = written \ sets.deleted
                  /\ \E result \in {NewCommitTarget(sets.added, sets.updated,
                                                    sets.deleted)} :
                        lastRun' =
                            [observed EXCEPT
                                !.raised = IF result.raised
                                           THEN "CommitTargetError"
                                           ELSE "none",
                                !.target = result.obj]
    /\ changed' = FALSE
    /\ nRuns' = nRuns + 1
    /\ UNCHANGED <<config, nChanges>>

\* the user edits one field of the configuration between two runs
ConfigChange ==
    /\ nChanges < MaxChanges
    /\ nRuns < MaxRuns
    /\ \E f \in DOMAIN config :
          \E c \in {[config EXCEPT ![f] = v] : v \in ConfigValues(f)} :
              /\ c # config
              /\ config' = c
    /\ changed' = TRUE
    /\ nChanges' = nChanges + 1
    /\ UNCHANGED <<remote, snapshots, logFiles, listJson, files,
                   gitattributes, lastRun, nRuns>>

\* the resource behind a url that was requested before now answers
\* differently
RemoteChange ==
    /\ nChanges < MaxChanges
    /\ nRuns < MaxRuns
    /\ \E u \in Urls, o \in RemoteOutcomes :
          /\ remote[u] # Unknown
          /\ remote[u] # o
          /\ remote' = [remote EXCEPT ![u] = o]
    /\ changed' = TRUE
    /\ nChanges' = nChanges + 1
    /\ UNCHANGED <<config, snapshots, logFiles, listJson, files,
                   gitattributes, lastRun, nRuns>>

\* the configurations a behaviour starts from: the default one, with or
\* without an archive pattern
InitConfigs ==
    {[DefaultConfig EXCEPT !.content_types = c] : c \in SUBSET ContentTypePatterns}

RunInit ==
    /\ AlIdle
    /\ PrIdle
    /\ EsIdle
    /\ CbIdle
    /\ PlIdle
    /\ CtIdle
    /\ ClIdle
    /\ DfIdle
    /\ FtIdle
    /\ config \in InitConfigs
    /\ RunStart

RunNext ==
    \/ (\E timestamp \in Timestamps : SaveExternalLinks(timestamp))
          /\ UNCHANGED <<ctVars, clVars, dfVars, ftVars, plVars, cbVars, esVars, prVars, alVars>>
    \/ ConfigChange /\ UNCHANGED <<ctVars, clVars, dfVars, ftVars, plVars, cbVars, esVars, prVars, alVars>>
    \/ RemoteChange /\ UNCHANGED <<ctVars, clVars, dfVars, ftVars, plVars, cbVars, esVars, prVars, alVars>>

SpecRun == RunInit /\ [][RunNext]_vars

(***************************************************************************)
(* Specification of the fetch pipeline: _request_logs from the shuffled    *)
(* new links on, with the tasks of _request_external_links interleaved at  *)
(* their awaits                                                            *)
(***************************************************************************)
\* what a GET ends in: the outcomes above, or a text/html response whose
\* body read raises aiohttp.ClientPayloadError, or a text/html response
\* for which the open or the write of the file raises OSError
FetchOutcomes == RemoteOutcomes \cup {"ClientPayloadError", "OSError"}

\* response.headers.get("content-type") of an outcome that has a response
ContentTypeOf(outcome) ==
    IF outcome \in {"ClientPayloadError", "OSError"} THEN "text/html"
    ELSE outcome

NoRecord == [none |-> TRUE]

\* an except clause that lets a timeout through
CaughtClientErrorOnly(error_type) == error_type = "ClientPayloadError"

\* an except clause that catches every exception
CaughtAnyException(error_type) == TRUE

\* except (asyncio.TimeoutError, aiohttp.ClientError): the errors _request
\* turns into a record
Caught(error_type) == error_type \in {"TimeoutError", "ClientPayloadError"}

\* the record _request returns for a caught error
ErrorRecord(link, access_timestamp, error_type) ==
    ExternalLinkLog(link.url, link.locations, access_timestamp,
                    RequestError(error_type, ""), FALSE)

Tasks == 1..Len(ftLinks)

\* a semaphore that lets every acquire through
SemaphoreNeverLocked(value) == TRUE

\* asyncio.Semaphore.locked() is false: an acquire goes through
SemaphoreFree(value) == value > 0

\* a variant that gives the slot back as soon as the request is over
SemaphoreReleasedAfterRequest(value) == value + 1

\* _request returns inside "async with semaphore" and the task goes on to
\* asyncio.sleep: the semaphore is as it was
SemaphoreAfterRequest(value) == value

\* a semaphore that is not given back when its block is left
SemaphoreKept(value) == value

\* leaving "async with semaphore": semaphore.release()
SemaphoreRelease(value) == value + 1

\* the tasks inside "async with semaphore"
Admitted == {i \in Tasks : ftPc[i] \in {"get", "read", "sleep"}}

\* the tasks of asyncio.gather run: gather has not returned; after an
\* exception left it the other tasks still run, until asyncio.run cancels
\* them
TasksRun == ftMain \in {"running", "raised"}

\* a task passes the semaphore and runs _request up to its first await:
\* tasks reach the semaphore in list order and its waiters are served in
\* that order
FtEnter(i) ==
    /\ TasksRun
    /\ ftPc[i] = "queued"
    /\ \A j \in 1..(i - 1) : ftPc[j] # "queued"
    /\ SemaphoreFree(ftSem)
    /\ ftSem' = ftSem - 1
    /\ \E now \in ftClock..MaxClock :
          /\ ftClock' = now
          /\ ftStart' = [ftStart EXCEPT ![i] = now]
    /\ IF IsExcluded(ftConfig, ftLinks[i].url)
       THEN /\ ftRecord' = [ftRecord EXCEPT ![i] =
                   ExternalLinkLog(ftLinks[i].url, ftLinks[i].locations, 0,
                                   Excluded, FALSE)]
            /\ ftPc' = [ftPc EXCEPT ![i] = "sleep"]
            /\ UNCHANGED ftGets
       ELSE /\ ftGets' = Append(ftGets, ftLinks[i].url)
            /\ ftPc' = [ftPc EXCEPT ![i] = "get"]
            /\ UNCHANGED ftRecord
    /\ UNCHANGED <<ftLinks, ftCarried, ftConfig, ftOutcome, ftMain, ftDisk,
                   ftDone, ftLogs, ftSaved>>

\* session.get of a task ends: an error is caught and recorded; a response
\* whose content type is archived opens the file, which may raise, and
\* awaits the body; any other response is recorded unsaved
FtRespond(i) ==
    /\ TasksRun
    /\ ftPc[i] = "get"
    /\ LET link == ftLinks[i]
           outcome == ftOutcome[link.url]
       IN  IF outcome = "TimeoutError"
           THEN /\ IF Caught(outcome)
                   THEN /\ ftRecord' = [ftRecord EXCEPT ![i] =
                               ErrorRecord(link, ftStart[i], outcome)]
                        /\ ftPc' = [ftPc EXCEPT ![i] = "sleep"]
                        /\ UNCHANGED ftMain
                   ELSE /\ ftPc' = [ftPc EXCEPT ![i] = "raised"]
                        /\ ftMain' = "raised"
                        /\ UNCHANGED ftRecord
                /\ UNCHANGED ftDisk
           ELSE IF IsArchived(ftConfig.content_types, ContentTypeOf(outcome))
           THEN \/ /\ ftDisk' = [ftDisk EXCEPT
                                    ![FilePath(link.url)] = "truncated"]
                   /\ ftPc' = [ftPc EXCEPT ![i] = "read"]
                   /\ UNCHANGED <<ftRecord, ftMain>>
                \/ \* file_path.open raises
                   /\ outcome = "OSError"
                   /\ IF Caught(outcome)
                      THEN /\ ftRecord' = [ftRecord EXCEPT ![i] =
                                  ErrorRecord(link, ftStart[i], outcome)]
                           /\ ftPc' = [ftPc EXCEPT ![i] = "sleep"]
                           /\ UNCHANGED ftMain
                      ELSE /\ ftPc' = [ftPc EXCEPT ![i] = "raised"]
                           /\ ftMain' = "raised"
                           /\ UNCHANGED ftRecord
                   /\ UNCHANGED ftDisk
           ELSE /\ ftRecord' = [ftRecord EXCEPT ![i] =
                       ExternalLinkLog(link.url, link.locations, ftStart[i],
                                       ResponseLog(200, ContentTypeOf(outcome)),
                                       FALSE)]
                /\ ftPc' = [ftPc EXCEPT ![i] = "sleep"]
                /\ UNCHANGED <<ftDisk, ftMain>>
    /\ ftSem' = IF ftPc'[i] = "sleep" THEN SemaphoreAfterRequest(ftSem)
                ELSE IF ftPc'[i] = "raised" THEN SemaphoreRelease(ftSem)
                ELSE ftSem
    /\ UNCHANGED <<ftLinks, ftCarried, ftConfig, ftOutcome,
                   ftClock, ftStart, ftGets, ftDone, ftLogs, ftSaved>>

\* response.read() of a task ends: the body is written and the record is
\* saved; or the read or file.write raises, and the error is caught and
\* recorded or leaves the task, and the opened file stays
FtRead(i) ==
    /\ TasksRun
    /\ ftPc[i] = "read"
    /\ LET link == ftLinks[i]
           outcome == ftOutcome[link.url]
       IN  IF outcome \in {"ClientPayloadError", "OSError"}
           THEN /\ IF Caught(outcome)
                   THEN /\ ftRecord' = [ftRecord EXCEPT ![i] =
                               ErrorRecord(link, ftStart[i], outcome)]
                        /\ ftPc' = [ftPc EXCEPT ![i] = "sleep"]
                        /\ UNCHANGED ftMain
                   ELSE /\ ftPc' = [ftPc EXCEPT ![i] = "raised"]
                        /\ ftMain' = "raised"
                        /\ UNCHANGED ftRecord
                /\ UNCHANGED ftDisk
           ELSE /\ ftRecord' = [ftRecord EXCEPT ![i] =
                       ExternalLinkLog(link.url, link.locations, ftStart[i],
                                       ResponseLog(200, outcome), TRUE)]
                /\ ftDisk' = [ftDisk EXCEPT ![FilePath(link.url)] = "written"]
                /\ ftPc' = [ftPc EXCEPT ![i] = "sleep"]
                /\ UNCHANGED ftMain
    /\ ftSem' = IF ftPc'[i] = "sleep" THEN SemaphoreAfterRequest(ftSem)
                ELSE IF ftPc'[i] = "raised" THEN SemaphoreRelease(ftSem)
                ELSE ftSem
    /\ UNCHANGED <<ftLinks, ftCarried, ftConfig, ftOutcome,
                   ftClock, ftStart, ftGets, ftDone, ftLogs, ftSaved>>

\* asyncio.sleep(request_interval) of a task ends: it leaves the semaphore
\* and returns its record
FtWake(i) ==
    /\ TasksRun
    /\ ftPc[i] = "sleep"
    /\ ftPc' = [ftPc EXCEPT ![i] = "done"]
    /\ ftSem' = SemaphoreRelease(ftSem)
    /\ ftDone' = Append(ftDone, i)
    /\ UNCHANGED <<ftLinks, ftCarried, ftConfig, ftOutcome, ftMain, ftClock,
                   ftStart, ftRecord, ftGets, ftDisk, ftLogs, ftSaved>>

\* asyncio.gather returns the records in task order; _request_logs appends
\* the carried records, sorts by url and returns; save_external_links saves
\* the list as the log of the run and the urls of its saved records as
\* list.json
FtReturn ==
    /\ ftMain = "running"
    /\ \A i \in Tasks : ftPc[i] = "done"
    /\ \E logs \in {SortByUrl(ftRecord \o ftCarried)} :
          /\ ftLogs' = logs
          /\ ftSaved' = [log |-> [exists |-> TRUE, logs |-> logs],
                         list |-> FileList(ftConfig.content_types,
                                           SavedUrls(logs))]
    /\ ftMain' = "returned"
    /\ UNCHANGED <<ftLinks, ftCarried, ftConfig, ftOutcome, ftPc, ftSem,
                   ftClock, ftStart, ftRecord, ftGets, ftDisk, ftDone>>

\* lists of links with pairwise distinct urls, in every order
FtLinkLists ==
    {l \in SeqsUpTo({ExternalLink(u, <<1>>) : u \in Urls}, MaxFetch) :
        NoDuplicateUrl(l)}

\* the record an earlier run left for a url
FtCarriedLog(u) == ExternalLinkLog(u, <<1>>, 0, ResponseLog(200, "text/html"), TRUE)

FtConfigs ==
    [parallel_limit : 1..MaxLimit,
     content_types : SUBSET ContentTypePatterns,
     excluded_urls : SUBSET ExcludedUrlPatterns]

FtInit ==
    /\ AlIdle
    /\ PrIdle
    /\ EsIdle
    /\ CbIdle
    /\ PlIdle
    /\ CtIdle
    /\ ClIdle
    /\ DfIdle
    /\ RunIdle
    /\ ftLinks \in FtLinkLists
    /\ \E carried \in SUBSET (Urls \ UrlsOf(ftLinks)) :
          ftCarried \in {l \in [1..Cardinality(carried) ->
                                   {FtCarriedLog(u) : u \in carried}] :
                            NoDuplicateUrl(l)}
    /\ ftConfig \in FtConfigs
    /\ ftOutcome \in {o \in [Urls -> FetchOutcomes] :
                         \A u \in Urls \ UrlsOf(ftLinks) : o[u] = "TimeoutError"}
    /\ ftMain = "running"
    /\ ftPc = [i \in 1..Len(ftLinks) |-> "queued"]
    /\ ftSem = ftConfig.parallel_limit
    /\ ftClock = 1
    /\ ftStart = [i \in 1..Len(ftLinks) |-> 0]
    /\ ftRecord = [i \in 1..Len(ftLinks) |-> NoRecord]
    /\ ftGets = <<>>
    /\ ftDisk \in [LinkPaths -> {"absent"}]
    /\ ftDone = <<>>
    /\ ftLogs = <<>>
    /\ ftSaved = NotSaved

FtNext ==
    \/ (\E i \in Tasks : FtEnter(i)) /\ UNCHANGED <<ctVars, clVars, dfVars, runVars, plVars, cbVars, esVars, prVars, alVars>>
    \/ (\E i \in Tasks : FtRespond(i)) /\ UNCHANGED <<ctVars, clVars, dfVars, runVars, plVars, cbVars, esVars, prVars, alVars>>
    \/ (\E i \in Tasks : FtRead(i)) /\ UNCHANGED <<ctVars, clVars, dfVars, runVars, plVars, cbVars, esVars, prVars, alVars>>
    \/ (\E i \in Tasks : FtWake(i)) /\ UNCHANGED <<ctVars, clVars, dfVars, runVars, plVars, cbVars, esVars, prVars, alVars>>
    \/ FtReturn /\ UNCHANGED <<ctVars, clVars, dfVars, runVars, plVars, cbVars, esVars, prVars, alVars>>

SpecFetch == FtInit /\ [][FtNext]_vars

\* a call of _request_external_links by itself: no carried records are
\* appended, and every content type pattern is archived
FtPipelineInit ==
    /\ FtInit
    /\ ftCarried = <<>>
    /\ ftConfig.content_types = ContentTypePatterns

\* the event loop runs a task that can go on: a free semaphore wakes its
\* first waiter, a request ends in a response or in its timeout, a read
\* and a sleep end, and gather returns when its tasks are done
SpecFetchFair == FtPipelineInit /\ [][FtNext]_vars /\ WF_vars(FtNext)

(***************************************************************************)
(* C1  A CommitTarget that exists after construction has pairwise disjoint *)
(* added, updated and deleted sets of normalised paths, and construction   *)
(* raises CommitTargetError exactly when some path, once normalised,       *)
(* occurs in two of the categories handed in.                              *)
(***************************************************************************)
InTwoCategories(a, u, d) ==
    \E p \in a \cup u \cup d :
        Cardinality({i \in 1..3 : p \in <<a, u, d>>[i]}) >= 2

ResolvedSet(s) == {Resolve(p) : p \in s}

ConstructDisjointOrRaises ==
    ctOp = "construct" =>
        LET a == ResolvedSet(ctArgs[1])
            u == ResolvedSet(ctArgs[2])
            d == ResolvedSet(ctArgs[3])
        IN  /\ ctRaised <=> InTwoCategories(a, u, d)
            /\ ctRaised => ctSelf = NoTarget
            /\ ~ctRaised =>
                /\ ctSelf = Target(a, u, d)
                /\ ctSelf.added \cap ctSelf.updated = {}
                /\ ctSelf.updated \cap ctSelf.deleted = {}
                /\ ctSelf.added \cap ctSelf.deleted = {}

\* a construction that raised only because two spellings of one path were
\* handed to added and deleted
ConstructOverlapWitness ==
    /\ ctOp = "construct"
    /\ ctRaised
    /\ ctArgs[1] \cap ctArgs[3] = {}
    /\ ctArgs[2] = {}
    /\ ResolvedSet(ctArgs[1]) \cap ResolvedSet(ctArgs[3]) # {}

(***************************************************************************)
(* C2  update(other) leaves the receiver holding the three unions of its   *)
(* own and other's categories; it raises CommitTargetError exactly when a  *)
(* path lies in two different categories of the unions.                    *)
(***************************************************************************)
UpdateUnionsAndRevalidates ==
    ctOp = "update" =>
        LET before == ctArgs[1]
            other == ctArgs[2]
            a == before.added \cup other.added
            u == before.updated \cup other.updated
            d == before.deleted \cup other.deleted
        IN  /\ ctSelf = Target(a, u, d)
            /\ ctRaised <=> InTwoCategories(a, u, d)

\* a merge of two valid targets that raised because of added against deleted
UpdateRaisedWitness ==
    /\ ctOp = "update"
    /\ ctRaised
    /\ ~InTwoCategories(ctArgs[1].added, ctArgs[1].updated, ctArgs[1].deleted)
    /\ ctArgs[1].added \cap ctArgs[2].deleted # {}
    /\ ctArgs[1].updated = {} /\ ctArgs[2].updated = {}

(***************************************************************************)
(* C5  The classifier partitions the urls by presence: only among the      *)
(* current links -> new_links, in both -> carried logs, only among the     *)
(* previous records -> deleted_links; the three url sets are disjoint and  *)
(* cover every input url exactly once.  With no previous record every link *)
(* is new, with no link every previous record is deleted.                  *)
(***************************************************************************)
ClassifyPartitionsUrls ==
    clResult # NotCalled =>
        LET r == clResult
            L == UrlsOf(clLinks)
            P == UrlsOf(clPrevious)
        IN  /\ UrlsOf(r.new_links) = L \ P
            /\ UrlsOf(r.logs) = L \cap P
            /\ UrlsOf(r.deleted_links) = P \ L
            /\ Len(r.new_links) + Len(r.logs) + Len(r.deleted_links)
                  = Cardinality(L \cup P)
            /\ SeqToSet(r.new_links) \subseteq SeqToSet(clLinks)
            /\ SeqToSet(r.deleted_links) \subseteq SeqToSet(clPrevious)
            /\ (clPrevious = <<>> /\ NoDuplicateUrl(clLinks)) =>
                  r = [new_links |-> clLinks, logs |-> <<>>,
                       deleted_links |-> <<>>]
            /\ (clLinks = <<>> /\ NoDuplicateUrl(clPrevious)) =>
                  r = [new_links |-> <<>>, logs |-> <<>>,
                       deleted_links |-> clPrevious]

\* a classification with a new link, a carried record and a deleted record
ClassifyThreeWayWitness ==
    /\ clResult # NotCalled
    /\ Len(clResult.new_links) = 1
    /\ Len(clResult.logs) = 1
    /\ Len(clResult.deleted_links) = 1

(***************************************************************************)
(* C6  A carried record has the previous record's response, is_saved and   *)
(* access_timestamp and the locations of the current link, never the       *)
(* previous record's locations.                                            *)
(***************************************************************************)
CarriedKeepsResponseTakesLocations ==
    clResult # NotCalled =>
        /\ \A u \in UrlsOf(clLinks) \cap UrlsOf(clPrevious) :
              \E i \in 1..Len(clResult.logs) : clResult.logs[i].url = u
        /\ \A i \in 1..Len(clResult.logs) :
              LET c == clResult.logs[i]
                  link == LastWith(clLinks, c.url)
                  log == LastWith(clPrevious, c.url)
              IN  /\ c.response = log.response
                  /\ c.is_saved = log.is_saved
                  /\ c.access_timestamp = log.access_timestamp
                  /\ c.locations = link.locations

\* a carried record whose previous locations differ from the current ones
CarriedRelocatedWitness ==
    /\ clResult # NotCalled
    /\ \E i \in 1..Len(clResult.logs) :
          /\ clResult.logs[i].is_saved
          /\ LastWith(clPrevious, clResult.logs[i].url).locations
                # clResult.logs[i].locations

(***************************************************************************)
(* C7  The page diff classifies by escaped title: a key only in current is *)
(* added; a key in both whose page content differs is updated, also when   *)
(* the updated timestamps are equal; a key in both with equal content is   *)
(* in no list; a key only in previous is deleted; with no previous data    *)
(* every current page is added.                                            *)
(***************************************************************************)
KeysOfPages(pages) == {EscapeFilename(pages[i].title) : i \in 1..Len(pages)}

DiffPagesByKeyAndContent ==
    (/\ dfResult # NotCalled
     /\ UniqueKeys(dfCurrent.pages)
     /\ dfPrevious # NoData => UniqueKeys(dfPrevious.pages)) =>
        LET r == dfResult
            A == SeqToSet(r.added)
            U == SeqToSet(r.updated)
            D == SeqToSet(r.deleted)
        IN  IF dfPrevious = NoData
            THEN r = [added |-> dfCurrent.pages, updated |-> <<>>, deleted |-> <<>>]
            ELSE
                /\ \A i \in 1..Len(dfCurrent.pages) :
                      LET page == dfCurrent.pages[i]
                          key == EscapeFilename(page.title)
                      IN  IF key \notin KeysOfPages(dfPrevious.pages)
                          THEN page \in A /\ page \notin U
                          ELSE LET old == LastPageWithKey(dfPrevious.pages, key)
                               IN  /\ page \notin A
                                   /\ page \in U <=> page # old
                                   /\ old \notin D
                /\ \A i \in 1..Len(dfPrevious.pages) :
                      dfPrevious.pages[i] \in D <=>
                          EscapeFilename(dfPrevious.pages[i].title)
                              \notin KeysOfPages(dfCurrent.pages)
                /\ Len(r.added) + Len(r.updated) + Len(r.deleted)
                      = Cardinality(A) + Cardinality(U) + Cardinality(D)
                /\ A \cup U \subseteq SeqToSet(dfCurrent.pages)
                /\ D \subseteq SeqToSet(dfPrevious.pages)

\* a page reported as updated although its updated timestamp did not move,
\* next to an added and a deleted page
DiffContentOnlyEditWitness ==
    /\ dfResult # NotCalled
    /\ dfPrevious # NoData
    /\ \E i \in 1..Len(dfResult.updated) :
          LET page == dfResult.updated[i]
              old == LastPageWithKey(dfPrevious.pages, EscapeFilename(page.title))
          IN  page.updated = old.updated /\ page.title = old.title
    /\ Len(dfResult.added) + Len(dfResult.deleted) >= 1

(***************************************************************************)
(* Specification of the lookup of the previous log: a log directory with   *)
(* any set of log files, a run for any timestamp                           *)
(***************************************************************************)
\* the records of the log file of a timestamp; access_timestamp tells the
\* log files apart
PlRecords(t) ==
    <<ExternalLinkLog(UrlList[1], <<t>>, t, ResponseLog(200, "text/html"),
                      FALSE)>>

\* a log file is absent, holds an empty list, or holds records
PlLogFiles(t) ==
    {NoFile, [exists |-> TRUE, logs |-> <<>>],
     [exists |-> TRUE, logs |-> PlRecords(t)]}

PlInit ==
    /\ AlIdle
    /\ PrIdle
    /\ EsIdle
    /\ CbIdle
    /\ CtIdle
    /\ ClIdle
    /\ DfIdle
    /\ RunIdle
    /\ FtIdle
    /\ plFiles \in {f \in [Stamps -> UNION {PlLogFiles(t) : t \in Stamps}] :
                       \A t \in Stamps : f[t] \in PlLogFiles(t)}
    /\ plTimestamp \in 1..(MaxStamp + 1)
    /\ plForced \in BOOLEAN
    /\ plResult = NotCalled

\* save_external_links, "load previous log"
PlLoad ==
    /\ plResult = NotCalled
    /\ plResult' = [called |-> TRUE,
                    previous_logs |->
                        PreviousLogs(plFiles, plTimestamp, plForced)]
    /\ UNCHANGED <<plFiles, plTimestamp, plForced>>

PlNext == PlLoad /\ UNCHANGED <<ctVars, clVars, dfVars, runVars, ftVars, cbVars, esVars, prVars, alVars>>

SpecPrior == PlInit /\ [][PlNext]_vars

(***************************************************************************)
(* Specification of one commit pass: commit_backups over the stored        *)
(* snapshots, commit_backup and staging_backup for each of them            *)
(***************************************************************************)
Snaps == 1..MaxSnap

\* a variant that leaves the snapshots newest first
BackupsNewestFirst(storage) ==
    LET RECURSIVE Down(_)
        Down(S) == IF S = {} THEN <<>>
                   ELSE LET m == CHOOSE x \in S : \A y \in S : y <= x
                        IN  <<m>> \o Down(S \ {m})
    IN  Down(storage)

\* BackupArchive.backups(): sorted(find_all(), key=timestamp), old to new
RECURSIVE Backups(_)
Backups(storage) ==
    IF storage = {} THEN <<>>
    ELSE LET m == CHOOSE x \in storage : \A y \in storage : x <= y
         IN  <<m>> \o Backups(storage \ {m})

\* Git.latest_commit_timestamp(): the commit time of HEAD, 0 for None
LatestCommitTimestamp(git) ==
    IF git = <<>> THEN 0 ELSE git[Len(git)].timestamp

\* threshold of _backup_targets: max of the values that are not None, 0
\* for None
Threshold(backup_start, latest_commit) ==
    IF backup_start >= latest_commit THEN backup_start ELSE latest_commit

\* _backup_targets(config, git, logger)
BackupTargets(backup_start, git, storage) ==
    LET threshold == Threshold(backup_start, LatestCommitTimestamp(git))
    IN  SelectSeq(Backups(storage),
                  LAMBDA timestamp : threshold = 0 \/ threshold < timestamp)

\* one file that a page of the snapshot and an archived link can both map
\* to, and list.json of the links directory
SharedFile == Cwd \o <<"repo", "pages", "a.json">>
ListFile == Cwd \o <<"repo", "pages", "list.json">>

\* what backup_repository.update(data) can return for the file
CbBackupTargets ==
    {EmptyTarget, Target({SharedFile}, {}, {}), Target({}, {SharedFile}, {}),
     Target({}, {}, {SharedFile})}

\* what save_external_links can return for it
CbLinkTargets ==
    {Target({}, {ListFile}, {}), Target({SharedFile}, {ListFile}, {}),
     Target({}, {SharedFile, ListFile}, {}),
     Target({}, {ListFile}, {SharedFile})}

Event(op, timestamp) == [op |-> op, timestamp |-> timestamp]

CommitOf(kind, timestamp, target) ==
    [kind |-> kind, timestamp |-> timestamp, target |-> target,
     allow_empty |-> IsEmpty(target)]

\* commit_backups up to its loop: the backup targets are computed once
CbBegin ==
    /\ cbPc = "start"
    /\ cbTargets' = BackupTargets(cbConfig.start, cbGit, cbStorage)
    /\ cbPos' = 1
    /\ cbPc' = IF cbTargets' = <<>> THEN "done" ELSE "staging"
    /\ UNCHANGED <<cbConfig, cbStorage, cbGit, cbStaged, cbEvents>>

\* the loop of commit_backups goes on to the next target or ends
CbAdvance ==
    /\ cbPos' = cbPos + 1
    /\ cbPc' = IF cbPos < Len(cbTargets) THEN "staging" ELSE "done"

\* commit_backup up to git.commit: the empty initial commit when the branch
\* has none, then staging_backup, whose merge of the two CommitTargets may
\* raise
CbStage ==
    /\ cbPc = "staging"
    /\ \E timestamp \in {cbTargets[cbPos]} :
       \E git \in
            {IF cbConfig.initial /\ cbGit = <<>>
             THEN <<CommitOf("initial", timestamp, EmptyTarget)>>
             ELSE cbGit} :
          /\ cbGit' = git
          /\ \/ \* backup_path.load() is None: "failed to staging"
                /\ cbEvents' = Append(cbEvents, Event("skip", timestamp))
                /\ cbStaged' = NoTarget
                /\ CbAdvance
             \/ \E commit_target \in CbBackupTargets :
                   IF cbConfig.links
                   THEN \E other \in CbLinkTargets :
                        \E r \in {UpdateTarget(commit_target, other)} :
                           IF r.raised
                           THEN /\ cbEvents' = Append(cbEvents,
                                                     Event("raise", timestamp))
                                /\ cbPc' = "raised"
                                /\ UNCHANGED <<cbStaged, cbPos>>
                           ELSE /\ cbEvents' = Append(cbEvents,
                                                     Event("stage", timestamp))
                                /\ cbStaged' = r.obj
                                /\ cbPc' = "staged"
                                /\ UNCHANGED cbPos
                   ELSE /\ cbEvents' = Append(cbEvents,
                                             Event("stage", timestamp))
                        /\ cbStaged' = commit_target
                        /\ cbPc' = "staged"
                        /\ UNCHANGED cbPos
    /\ UNCHANGED <<cbConfig, cbStorage, cbTargets>>

\* git.commit(commit_target, message, timestamp=data.timestamp)
CbCommit ==
    /\ cbPc = "staged"
    /\ cbGit' = Append(cbGit, CommitOf("backup", cbTargets[cbPos], cbStaged))
    /\ cbEvents' = Append(cbEvents, Event("commit", cbTargets[cbPos]))
    /\ cbStaged' = NoTarget
    /\ CbAdvance
    /\ UNCHANGED <<cbConfig, cbStorage, cbTargets>>

CbInit ==
    /\ AlIdle
    /\ PrIdle
    /\ EsIdle
    /\ CtIdle
    /\ ClIdle
    /\ DfIdle
    /\ RunIdle
    /\ FtIdle
    /\ PlIdle
    /\ cbConfig \in [start : 0..MaxSnap, links : BOOLEAN, initial : BOOLEAN]
    /\ cbStorage \in SUBSET Snaps
    /\ cbGit \in {<<>>} \cup
                  {<<CommitOf("earlier", t, EmptyTarget)>> : t \in Snaps}
    /\ cbTargets = <<>>
    /\ cbPos = 0
    /\ cbPc = "start"
    /\ cbStaged = NoTarget
    /\ cbEvents = <<>>

CbNext ==
    \/ CbBegin /\ UNCHANGED <<ctVars, clVars, dfVars, runVars, ftVars, plVars, esVars, prVars, alVars>>
    \/ CbStage /\ UNCHANGED <<ctVars, clVars, dfVars, runVars, ftVars, plVars, esVars, prVars, alVars>>
    \/ CbCommit /\ UNCHANGED <<ctVars, clVars, dfVars, runVars, ftVars, plVars, esVars, prVars, alVars>>

SpecCommit == CbInit /\ [][CbNext]_vars

(***************************************************************************)
(* Specification of _escape_filename: two titles, the second differing     *)
(* from the first in one place, are escaped                                *)
(***************************************************************************)
\* the characters of the table, two digits and the underscore
TitleChars == {" ", "#", "%", "/", "_", "2", "3"}

EsTitles == SeqsUpTo(TitleChars, MaxTitle)

\* the places of a title where a second title can differ from it: "#" in
\* place of the characters %23, or "_" in place of a space
EsEdits(title) ==
    {NoEdit}
    \cup {[kind |-> "hash", pos |-> p] :
            p \in {q \in 1..(Len(title) - 2) :
                      SubSeq(title, q, q + 2) = <<"%", "2", "3">>}}
    \cup {[kind |-> "space", pos |-> p] :
            p \in {q \in 1..Len(title) : title[q] = " "}}

\* the second title
Edited(title, edit) ==
    IF edit.kind = "hash"
    THEN SubSeq(title, 1, edit.pos - 1) \o <<"#">>
            \o SubSeq(title, edit.pos + 3, Len(title))
    ELSE IF edit.kind = "space"
    THEN [title EXCEPT ![edit.pos] = "_"]
    ELSE title

EsInit ==
    /\ AlIdle
    /\ PrIdle
    /\ CtIdle
    /\ ClIdle
    /\ DfIdle
    /\ RunIdle
    /\ FtIdle
    /\ PlIdle
    /\ CbIdle
    /\ esTitle \in EsTitles
    /\ esEdit \in EsEdits(esTitle)
    /\ esNames = <<>>

\* _escape_filename(title) for both titles
EsEscape ==
    /\ esNames = <<>>
    /\ esNames' = <<EscapeFilename(esTitle),
                    EscapeFilename(Edited(esTitle, esEdit))>>
    /\ UNCHANGED <<esTitle, esEdit>>

EsNext ==
    EsEscape /\ UNCHANGED <<ctVars, clVars, dfVars, runVars, ftVars, plVars, cbVars, prVars, alVars>>

SpecEscape == EsInit /\ [][EsNext]_vars

(***************************************************************************)
(* Specification of the end of _commit_target: the files of deleted are    *)
(* unlinked and the empty directories of the links directory are removed   *)
(***************************************************************************)
DirNames == {"a", "b"}

\* the directories the links directory can hold below itself
DirPaths ==
    {LinksRoot \o d : d \in UNION {[1..k -> DirNames] : k \in 1..MaxDepth}}

\* the archived files it can hold: one in each directory
ArchivedPaths == {d \o <<"f">> : d \in DirPaths \cup {LinksRoot}}

Parent(path) == SubSeq(path, 1, Len(path) - 1)

\* path.iterdir()
Children(fs, path) ==
    {q \in fs.dirs \cup fs.files : Len(q) > 1 /\ Parent(q) = path}

\* a removal that looks at a directory before it goes into its children
RECURSIVE RemoveEmptyTopDown(_, _)
RemoveEmptyTopDown(path, fs) ==
    LET RECURSIVE Each(_, _)
        Each(children, acc) ==
            IF children = {} THEN acc
            ELSE LET child == CHOOSE c \in children : TRUE
                 IN  Each(children \ {child}, RemoveEmptyTopDown(child, acc))
    IN  IF path \notin fs.dirs THEN fs
        ELSE IF Children(fs, path) = {}
        THEN [fs EXCEPT !.dirs = @ \ {path}]
        ELSE Each(Children(fs, path), fs)

\* _remove_empty_directory(path): nothing for a path that is no directory;
\* else the children first, then the directory itself if it is empty now
RECURSIVE RemoveEmptyDirectory(_, _)
RemoveEmptyDirectory(path, fs) ==
    LET RECURSIVE Each(_, _)
        Each(children, acc) ==
            IF children = {} THEN acc
            ELSE LET child == CHOOSE c \in children : TRUE
                 IN  Each(children \ {child}, RemoveEmptyDirectory(child, acc))
    IN  IF path \notin fs.dirs THEN fs
        ELSE LET swept == Each(Children(fs, path), fs)
             IN  IF Children(swept, path) = {}
                 THEN [swept EXCEPT !.dirs = @ \ {path}]
                 ELSE swept

\* the links directory after save_file_list: list.json is there, every
\* directory and every file lies in a directory that is there
Trees ==
    {t \in {Tree(directories \cup {LinksRoot}, regular \cup {FileListPath}) :
                directories \in SUBSET DirPaths,
                regular \in SUBSET ArchivedPaths} :
        \A p \in (t.dirs \ {LinksRoot}) \cup t.files : Parent(p) \in t.dirs}

PrInit ==
    /\ AlIdle
    /\ CtIdle
    /\ ClIdle
    /\ DfIdle
    /\ RunIdle
    /\ FtIdle
    /\ PlIdle
    /\ CbIdle
    /\ EsIdle
    /\ prBefore \in Trees
    /\ prFs = prBefore
    /\ prDeleted \in SubsetsUpTo(ArchivedPaths, MaxDeleted)
    /\ prPc = "start"

\* for path in deleted: path.unlink(); directory.remove_empty_directory();
\* unlink raises FileNotFoundError on a file that is not there, and the
\* files unlinked before it are gone
PrCommitTarget ==
    /\ prPc = "start"
    /\ IF prDeleted \ prFs.files # {}
       THEN /\ \E gone \in SUBSET (prDeleted \cap prFs.files) :
                  prFs' = [prFs EXCEPT !.files = @ \ gone]
            /\ prPc' = "raised"
       ELSE /\ prFs' = RemoveEmptyDirectory(
                          LinksRoot, [prFs EXCEPT !.files = @ \ prDeleted])
            /\ prPc' = "returned"
    /\ UNCHANGED <<prBefore, prDeleted>>

PrNext ==
    PrCommitTarget /\ UNCHANGED <<ctVars, clVars, dfVars, runVars, ftVars, plVars, cbVars, esVars, alVars>>

SpecPrune == PrInit /\ [][PrNext]_vars

(***************************************************************************)
(* Specification of one classifier call on objects with identity           *)
(***************************************************************************)
\* room for the objects of MaxLinks links (the link and its list), MaxLinks
\* records (the record, its list and its response) and MaxLinks carried
\* records (the copy and its list)
HeapSize == 7 * MaxLinks

Free == [kind |-> "free"]

IsFree(heap, id) == heap[id].kind = "free"

\* the objects a caller holds before the call: link i is object 2i-1 and its
\* locations list object 2i; the records follow, each with its list and its
\* response object
Load(links, logs) ==
    LET base == 2 * Len(links)
    IN  [id \in 1..HeapSize |->
            IF id <= base
            THEN IF id % 2 = 1
                 THEN [kind |-> "ExternalLink",
                       url |-> links[(id + 1) \div 2].url,
                       locations |-> id + 1]
                 ELSE [kind |-> "list",
                       items |-> links[id \div 2].locations]
            ELSE IF id <= base + 3 * Len(logs)
            THEN LET j == (id - base + 2) \div 3
                     part == (id - base + 2) % 3
                 IN  IF part = 0
                     THEN [kind |-> "ExternalLinkLog",
                           url |-> logs[j].url,
                           locations |-> id + 1,
                           access_timestamp |-> logs[j].access_timestamp,
                           response |-> id + 2,
                           is_saved |-> logs[j].is_saved]
                     ELSE IF part = 1
                     THEN [kind |-> "list", items |-> logs[j].locations]
                     ELSE logs[j].response
            ELSE Free]

LinkRefs(links) == [i \in 1..Len(links) |-> 2 * i - 1]

LogRefs(links, logs) == [j \in 1..Len(logs) |-> 2 * Len(links) + 3 * j - 2]

\* the objects behind a list of references
Deref(refs, heap) == [i \in 1..Len(refs) |-> heap[refs[i]]]

\* the identity a new object gets
Fresh(heap) ==
    CHOOSE id \in DOMAIN heap :
        /\ IsFree(heap, id)
        /\ \A other \in DOMAIN heap : IsFree(heap, other) => id <= other

\* copy.copy(obj): a new object with the fields of obj; what the fields
\* refer to is shared
ShallowCopy(heap, ref) ==
    [heap |-> [heap EXCEPT ![Fresh(heap)] = heap[ref]], ref |-> Fresh(heap)]

\* a carried record that takes the list of the link itself
SharedLocations(heap, ref) == [heap |-> heap, ref |-> ref]

\* copy.copy(pair.link.locations)
CopyLocations(heap, ref) == ShallowCopy(heap, ref)

\* log = copy.copy(pair.log); log.locations = copy.copy(pair.link.locations)
CarriedRecord(heap, link, log) ==
    LET copied == ShallowCopy(heap, log)
        locations == CopyLocations(copied.heap, heap[link].locations)
    IN  [heap |-> [locations.heap EXCEPT
                      ![copied.ref].locations = locations.ref],
         ref |-> copied.ref]

\* the object a dict keyed by url keeps for url: the last one inserted
LastRef(refs, heap, url) ==
    refs[CHOOSE i \in 1..Len(refs) :
        /\ heap[refs[i]].url = url
        /\ \A j \in 1..Len(refs) : heap[refs[j]].url = url => j <= i]

RECURSIVE ClassifyObjectsLoop(_, _, _, _)
ClassifyObjectsLoop(keys, links, previous_logs, acc) ==
    IF keys = <<>> THEN acc
    ELSE
        LET url == Head(keys)
            hasLink == url \in UrlsOf(Deref(links, acc.heap))
            hasLog == url \in UrlsOf(Deref(previous_logs, acc.heap))
            next ==
                IF ~hasLog
                THEN IF hasLink
                     THEN [acc EXCEPT !.new_links =
                              Append(@, LastRef(links, acc.heap, url))]
                     ELSE acc
                ELSE IF ~hasLink
                     THEN [acc EXCEPT !.deleted_links =
                              Append(@, LastRef(previous_logs, acc.heap, url))]
                     ELSE LET carried ==
                                  CarriedRecord(
                                      acc.heap,
                                      LastRef(links, acc.heap, url),
                                      LastRef(previous_logs, acc.heap, url))
                          IN  [acc EXCEPT !.heap = carried.heap,
                                          !.logs = Append(@, carried.ref)]
        IN  ClassifyObjectsLoop(Tail(keys), links, previous_logs, next)

\* _classify_external_links(links, previous_logs), on objects
ClassifyObjects(links, previous_logs, heap) ==
    ClassifyObjectsLoop(
        ClassifyPairs(Deref(links, heap), Deref(previous_logs, heap)),
        links, previous_logs,
        [heap |-> heap, new_links |-> <<>>, logs |-> <<>>,
         deleted_links |-> <<>>])

AlInit ==
    /\ CtIdle
    /\ ClIdle
    /\ DfIdle
    /\ RunIdle
    /\ FtIdle
    /\ PlIdle
    /\ CbIdle
    /\ EsIdle
    /\ PrIdle
    /\ \E links \in SeqsUpTo(ClLinkValues, MaxLinks),
          logs \in SeqsUpTo(ClLogValues, MaxLinks) :
        /\ alHeap = Load(links, logs)
        /\ alLinks = LinkRefs(links)
        /\ alPrevious = LogRefs(links, logs)
    /\ alBefore = alHeap
    /\ alResult = NotCalled
    /\ alPc = "start"

\* classified_links = _classify_external_links(links, previous_logs)
AlClassify ==
    /\ alPc = "start"
    /\ \E r \in {ClassifyObjects(alLinks, alPrevious, alHeap)} :
        /\ alHeap' = r.heap
        /\ alResult' = [new_links |-> r.new_links, logs |-> r.logs,
                        deleted_links |-> r.deleted_links]
    /\ alPc' = "classified"
    /\ UNCHANGED <<alBefore, alLinks, alPrevious>>

\* a later change of the locations list of a carried record: the list is
\* extended or cleared in place
AlChange ==
    /\ alPc = "classified"
    /\ \E k \in 1..Len(alResult.logs) :
        \E list \in {alHeap[alResult.logs[k]].locations} :
            \/ \E more \in LocationLists :
                  alHeap' = [alHeap EXCEPT ![list].items = @ \o more]
            \/ alHeap' = [alHeap EXCEPT ![list].items = <<>>]
    /\ alPc' = "changed"
    /\ UNCHANGED <<alBefore, alLinks, alPrevious, alResult>>

AlNext ==
    \/ AlClassify /\ UNCHANGED <<ctVars, clVars, dfVars, runVars, ftVars, plVars, cbVars, esVars, prVars>>
    \/ AlChange /\ UNCHANGED <<ctVars, clVars, dfVars, runVars, ftVars, plVars, cbVars, esVars, prVars>>

SpecAlias == AlInit /\ [][AlNext]_vars

(***************************************************************************)
(* Observations on the last archival run                                   *)
(***************************************************************************)
\* the run returned a CommitTarget
Returned == lastRun.timestamp # 0 /\ lastRun.raised = "none"

\* the run repeats the run before it: same timestamp, that run returned, and
\* neither the configuration nor the remote content was edited in between
SecondRun == lastRun.timestamp # 0 /\ lastRun.repeat

\* the file of a url as a CommitTarget holds it
LinkFile(url) == Resolve(FilePath(url))

LinkFiles == {LinkFile(u) : u \in Urls}

IndexFile == Resolve(FileListPath)

\* the urls of the index as loaded at the start of the run
PriorIndexUrls ==
    IF lastRun.previous_list = NoFile THEN {}
    ELSE SeqToSet(lastRun.previous_list.urls)

\* the urls of the index on disk
IndexUrls == IF listJson = NoFile THEN {} ELSE SeqToSet(listJson.urls)

(***************************************************************************)
(* C3  (as claimed) A second run for the same timestamp with unchanged     *)
(* remote content and configuration returns an empty CommitTarget.         *)
(***************************************************************************)
SecondRunTargetEmpty ==
    (SecondRun /\ Returned) => IsEmpty(lastRun.target)

(***************************************************************************)
(* C3  (amended) The CommitTarget of such a second run always holds the    *)
(* index file in updated; when the run takes the re-request branch (the    *)
(* log of the timestamp is still there and not all links are requested     *)
(* anew) added and deleted are empty and updated is the index file plus    *)
(* the files of the saved records.                                         *)
(***************************************************************************)
SecondRunTargetOnlyUpdates ==
    (SecondRun /\ Returned) =>
        /\ IndexFile \in lastRun.target.updated
        /\ lastRun.rerun =>
              /\ lastRun.target.added = {}
              /\ lastRun.target.deleted = {}
              /\ lastRun.target.updated =
                    {IndexFile}
                    \cup {LinkFile(u) : u \in SavedUrls(lastRun.logs)}

\* a second run through the re-request branch that stages an archived file
SecondRunRestagesWitness ==
    /\ SecondRun
    /\ Returned
    /\ lastRun.rerun
    /\ lastRun.target.updated \cap LinkFiles # {}

(***************************************************************************)
(* C4  (as claimed) A second run for the same timestamp with unchanged     *)
(* remote content and configuration issues no network request.             *)
(***************************************************************************)
SecondRunNoRequests ==
    SecondRun => lastRun.requested = {}

(***************************************************************************)
(* C4  (amended) When such a second run takes the re-request branch, every *)
(* url it requests has a record in the log of the timestamp that is not    *)
(* saved and whose response has a content type matching a configured       *)
(* pattern, and the url is not listed in the index; in particular no       *)
(* archived url is requested again.                                        *)
(***************************************************************************)
SecondRunRequestsOnlyUnsavedMatches ==
    (SecondRun /\ lastRun.rerun) =>
        \A u \in lastRun.requested :
            /\ u \notin PriorIndexUrls
            /\ \E i \in 1..Len(lastRun.logs) :
                  LET log == lastRun.logs[i]
                  IN  /\ log.url = u
                      /\ ~log.is_saved
                      /\ IsResponseLog(log.response)
                      /\ IsArchived(lastRun.config.content_types,
                                    log.response.content_type)

\* a second run through the re-request branch that does issue a request
SecondRunRequestsWitness ==
    /\ SecondRun
    /\ lastRun.rerun
    /\ lastRun.requested # {}

(***************************************************************************)
(* C8  (as claimed) With S the files of the run's saved records and P the  *)
(* files of the urls of the index loaded at the start: the link files in   *)
(* added are S \ P, in updated S \cap P, in deleted (keep_deleted_links    *)
(* false) P \ S; and a link fetched for the first time whose content type  *)
(* matches an archive pattern is saved and its file is in added.           *)
(***************************************************************************)
SavedFiles == {LinkFile(u) : u \in SavedUrls(lastRun.logs)}

PriorFiles == {LinkFile(u) : u \in PriorIndexUrls}

TargetFromSavedAndIndex ==
    Returned =>
        /\ lastRun.target.added \cap LinkFiles = SavedFiles \ PriorFiles
        /\ lastRun.target.updated \cap LinkFiles = SavedFiles \cap PriorFiles
        /\ ~lastRun.config.keep_deleted_links =>
              lastRun.target.deleted \cap LinkFiles = PriorFiles \ SavedFiles

FirstFetchIsAdded ==
    Returned =>
        \A i \in 1..Len(lastRun.logs) :
            LET log == lastRun.logs[i]
            IN  (/\ log.url \in lastRun.first
                 /\ IsResponseLog(log.response)
                 /\ IsArchived(lastRun.config.content_types,
                               log.response.content_type)) =>
                    /\ log.is_saved
                    /\ LinkFile(log.url) \in lastRun.target.added

TargetFromSavedAndIndexFirstFetchAdded ==
    TargetFromSavedAndIndex /\ FirstFetchIsAdded

(***************************************************************************)
(* C9  (as claimed) After a link was archived by a run, the second run for *)
(* the same timestamp with nothing changed has the link's file neither in  *)
(* added nor in updated, and the index lists the same urls as before.      *)
(***************************************************************************)
ArchivedLinkNotRestaged ==
    (SecondRun /\ Returned) =>
        /\ \A u \in PriorIndexUrls :
              LinkFile(u) \notin lastRun.target.added \cup lastRun.target.updated
        /\ IndexUrls = PriorIndexUrls

(***************************************************************************)
(* C9  (amended) After a link was archived by a run, the second run for    *)
(* the same timestamp with nothing changed never has the link's file in    *)
(* added; when it takes the re-request branch the file is in updated, not  *)
(* in deleted, and the index lists the same urls as before.                *)
(***************************************************************************)
ArchivedLinkOnlyUpdated ==
    (SecondRun /\ Returned) =>
        \A u \in PriorIndexUrls :
            /\ LinkFile(u) \notin lastRun.target.added
            /\ lastRun.rerun =>
                  /\ LinkFile(u) \in lastRun.target.updated
                  /\ LinkFile(u) \notin lastRun.target.deleted
                  /\ IndexUrls = PriorIndexUrls

\* a second run through the re-request branch after a link was archived
ArchivedLinkRerunWitness ==
    /\ SecondRun
    /\ Returned
    /\ lastRun.rerun
    /\ PriorIndexUrls # {}
    /\ \E u \in PriorIndexUrls : FilePath(u) \in files

(***************************************************************************)
(* C10  (as claimed) When a url listed in the prior index is no longer     *)
(* referenced by the snapshot: with keep_deleted_links false its file is   *)
(* in deleted and gone from disk when the run returns; with                *)
(* keep_deleted_links true deleted is empty and the file is still on disk. *)
(***************************************************************************)
DroppedLinkDeletedOrKept ==
    Returned =>
        \A u \in PriorIndexUrls \ snapshots[lastRun.timestamp].urls :
            IF lastRun.config.keep_deleted_links
            THEN /\ lastRun.target.deleted = {}
                 /\ FilePath(u) \in files
            ELSE /\ LinkFile(u) \in lastRun.target.deleted
                 /\ FilePath(u) \notin files

(***************************************************************************)
(* C11  While the pipeline runs, the number of links inside the admission  *)
(* gate (in their request, their body read or their pacing sleep) is at    *)
(* most parallel_limit, and the semaphore counts the free slots.           *)
(***************************************************************************)
AdmittedWithinLimit ==
    ftMain # "idle" =>
        /\ Cardinality(Admitted) <= ftConfig.parallel_limit
        /\ ftSem = ftConfig.parallel_limit - Cardinality(Admitted)

\* the gate is full, one holder is in its pacing sleep, and a link waits
GateFullWitness ==
    /\ ftMain = "running"
    /\ Cardinality(Admitted) = ftConfig.parallel_limit
    /\ ftConfig.parallel_limit >= 2
    /\ \E i \in Tasks : ftPc[i] = "sleep"
    /\ \E i \in Tasks : ftPc[i] = "queued"

(***************************************************************************)
(* C12  The list the classifier hands to the fetch pipeline holds no url   *)
(* twice, whatever the current links and the previous records are, so no   *)
(* url is requested twice in one run.                                      *)
(***************************************************************************)
NewLinksHaveDistinctUrls ==
    clResult # NotCalled =>
        /\ NoDuplicateUrl(clResult.new_links)
        /\ \A u \in UrlsOf(clLinks) \ UrlsOf(clPrevious) :
              Cardinality({i \in 1..Len(clResult.new_links) :
                              clResult.new_links[i].url = u}) = 1

\* the current links name one new url twice and it is handed on once
RepeatedLinkOnceWitness ==
    /\ clResult # NotCalled
    /\ Len(clLinks) = 2
    /\ clLinks[1].url = clLinks[2].url
    /\ Len(clResult.new_links) = 1

(***************************************************************************)
(* C13  A timeout or transport error of one link is contained: it does not *)
(* leave the pipeline, the link gets a RequestError record with            *)
(* is_saved false, and every other link that is not excluded is still      *)
(* requested once and gets the record of its own outcome in the returned   *)
(* list.                                                                   *)
(***************************************************************************)
GetsOf(url) == Cardinality({k \in 1..Len(ftGets) : ftGets[k] = url})

ErrorsContained ==
    /\ \A i \in Tasks :
          ftPc[i] = "raised" =>
              ftOutcome[ftLinks[i].url]
                  \notin {"TimeoutError", "ClientPayloadError"}
    /\ ftMain = "raised" => \E i \in Tasks : ftPc[i] = "raised"
    /\ \A i \in Tasks :
          (ftRecord[i] # NoRecord /\ IsRequestError(ftRecord[i].response)) =>
              /\ ~ftRecord[i].is_saved
              /\ ftRecord[i].url = ftLinks[i].url
              /\ ftOutcome[ftLinks[i].url] \in {"TimeoutError", "ClientPayloadError"}
    /\ ftMain = "returned" =>
          /\ Len(ftLogs) = Len(ftLinks) + Len(ftCarried)
          /\ \A i \in Tasks :
                LET link == ftLinks[i]
                    outcome == ftOutcome[link.url]
                    log == ftRecord[i]
                IN  /\ log # NoRecord
                    /\ log.url = link.url
                    /\ \E k \in 1..Len(ftLogs) : ftLogs[k] = log
                    /\ ~IsExcluded(ftConfig, link.url) =>
                          /\ GetsOf(link.url) = 1
                          /\ IF outcome = "TimeoutError"
                             THEN /\ log.response = RequestError("TimeoutError", "")
                                  /\ ~log.is_saved
                             ELSE IF /\ outcome = "ClientPayloadError"
                                     /\ IsArchived(ftConfig.content_types, "text/html")
                             THEN /\ log.response =
                                        RequestError("ClientPayloadError", "")
                                  /\ ~log.is_saved
                             ELSE /\ log.response =
                                        ResponseLog(200, ContentTypeOf(outcome))
                                  /\ log.is_saved =
                                        IsArchived(ftConfig.content_types,
                                                   ContentTypeOf(outcome))

\* with one slot, the first link timed out and the link queued behind it was
\* still fetched and saved
QueuedSiblingFetchedWitness ==
    /\ ftMain = "returned"
    /\ ftConfig.parallel_limit = 1
    /\ Len(ftLinks) >= 2
    /\ IsRequestError(ftRecord[1].response)
    /\ ftRecord[2].is_saved

(***************************************************************************)
(* C14  (as claimed) A link handed to the fetch pipeline whose url matches *)
(* an exclusion pattern is not handed to session.get, gets the record      *)
(* ('excluded', access_timestamp 0, is_saved false), has no file written   *)
(* at its path by the run, and its file is not in added of the run's       *)
(* CommitTarget.                                                           *)
(***************************************************************************)
ExcludedHanded ==
    {u \in lastRun.handed : IsExcluded(lastRun.config, u)}

ExcludedLinkLeavesNoTrace ==
    Returned =>
        \A u \in ExcludedHanded :
            /\ u \notin lastRun.requested
            /\ ~lastRun.rerun =>
                  \E i \in 1..Len(lastRun.logs) :
                      /\ lastRun.logs[i].url = u
                      /\ lastRun.logs[i].response = Excluded
                      /\ lastRun.logs[i].access_timestamp = 0
                      /\ ~lastRun.logs[i].is_saved
            /\ FilePath(u) \notin lastRun.written
            /\ LinkFile(u) \notin lastRun.target.added

(***************************************************************************)
(* C15: in every record of every log file of the log directory, after any  *)
(* sequence of runs, is_saved implies that the response is a ResponseLog    *)
(* whose content type is not null and matches an archive pattern; a record *)
(* with a RequestError or with 'excluded' is never saved.                  *)
(***************************************************************************)
PersistedRecords ==
    UNION {SeqToSet(logFiles[t].logs) : t \in LogTimestamps(logFiles)}

LogOfLastRun ==
    IF logFiles[lastRun.timestamp] # NoFile
    THEN logFiles[lastRun.timestamp].logs
    ELSE lastRun.logs

IndexIsSavedUrlsOfLog ==
    lastRun.timestamp # 0 =>
        /\ listJson # NoFile
        /\ SeqToSet(listJson.urls) =
              {log.url : log \in {l \in SeqToSet(LogOfLastRun) : l.is_saved}}
        /\ \A i \in 1..(Len(listJson.urls) - 1) :
              UrlRank(listJson.urls[i]) < UrlRank(listJson.urls[i + 1])
        /\ SeqToSet(listJson.content_types) = lastRun.config.content_types
        /\ \A i \in 1..(Len(listJson.content_types) - 1) :
              PatternRank(listJson.content_types[i]) <
                  PatternRank(listJson.content_types[i + 1])

\* a run wrote an index with two urls and two patterns while its log also
\* holds a record that is not saved
IndexOfTwoWitness ==
    /\ Returned
    /\ logFiles[lastRun.timestamp] # NoFile
    /\ Len(listJson.urls) = 2
    /\ Len(listJson.content_types) = 2
    /\ \E log \in SeqToSet(LogOfLastRun) : ~log.is_saved

(***************************************************************************)
(* C17: the list _request_logs returns, which the run persists as the log  *)
(* for T, is strictly ascending by url, and it is determined by what each  *)
(* url ended in -- its link, the outcome of its GET and the clock reading  *)
(* taken when its request began -- and by the carried records: neither the *)
(* order of the links handed to the pipeline nor the order in which the    *)
(* tasks complete shows in it.                                             *)
(***************************************************************************)
\* the record of a link, from what its url ended in alone
RecordOfOutcome(link, outcome, access_timestamp) ==
    IF /\ outcome \in {"ClientPayloadError", "OSError"}
       /\ ~IsExcluded(ftConfig, link.url)
    THEN IF IsArchived(ftConfig.content_types, ContentTypeOf(outcome))
         THEN IF outcome = "OSError" THEN NoRecord
              ELSE ErrorRecord(link, access_timestamp, outcome)
         ELSE ExternalLinkLog(link.url, link.locations, access_timestamp,
                              ResponseLog(200, ContentTypeOf(outcome)), FALSE)
    ELSE Request(link, ftConfig, outcome, access_timestamp)

ExpectedRecords ==
    {RecordOfOutcome(ftLinks[i], ftOutcome[ftLinks[i].url], ftStart[i]) :
        i \in Tasks}
        \cup SeqToSet(ftCarried)

LogSortedAndOrderFree ==
    ftMain = "returned" =>
        /\ \A k \in 1..(Len(ftLogs) - 1) :
              UrlRank(ftLogs[k].url) < UrlRank(ftLogs[k + 1].url)
        /\ Len(ftLogs) = Len(ftLinks) + Len(ftCarried)
        /\ SeqToSet(ftLogs) = ExpectedRecords

\* the links were handed over in descending url order, the second task
\* completed before the first one, and a carried record was merged in
ShuffledAndOvertakenWitness ==
    /\ ftMain = "returned"
    /\ Len(ftLinks) >= 2
    /\ UrlRank(ftLinks[1].url) > UrlRank(ftLinks[2].url)
    /\ ftDone[1] = 2
    /\ ftStart[1] < ftStart[2]
    /\ ftCarried # <<>>

(***************************************************************************)
(* C18: after a run with keep_logs = N, an integer N >= 0, exactly the N   *)
(* log files with the largest timestamps remain in the log directory -- all *)
(* of them when there are fewer than N -- and every older one is deleted;  *)
(* with keep_logs = "all" no log file is deleted.  The log files counted   *)
(* are those in the directory once the run has saved the log for T.        *)
(***************************************************************************)
KeepLogsKeepsNewest ==
    lastRun.timestamp # 0 =>
        LET found == lastRun.found
            left == LogTimestamps(logFiles)
            keep == lastRun.config.keep_logs
        IN  IF keep = KeepAll
            THEN left = found
            ELSE /\ left \subseteq found
                 /\ Cardinality(left) =
                       IF Cardinality(found) < keep.n
                       THEN Cardinality(found) ELSE keep.n
                 /\ \A t \in left, d \in found \ left : d < t

\* a run with keep_logs = 1 found two log files and left the newer one
OlderLogDeletedWitness ==
    /\ Returned
    /\ lastRun.config.keep_logs = KeepN(1)
    /\ Cardinality(lastRun.found) = 2
    /\ Cardinality(LogTimestamps(logFiles)) = 1

(***************************************************************************)
(* C19: when the content-type patterns stored in list.json differ from the *)
(* configured ones, or allways_request_all_links is set, the run uses no   *)
(* carried record: it does not take the re-request branch and hands every  *)
(* url the snapshot references to the fetch pipeline, also when a log for  *)
(* T or an earlier one exists.                                             *)
(***************************************************************************)
IndexPatternsDiffer ==
    /\ lastRun.previous_list # NoFile
    /\ SeqToSet(lastRun.previous_list.content_types) #
           lastRun.config.content_types

AllLinksHanded ==
    /\ ~lastRun.rerun
    /\ lastRun.handed = snapshots[lastRun.timestamp].urls

PatternChangeOrForceRequestsAll ==
    (/\ lastRun.timestamp # 0
     /\ \/ IndexPatternsDiffer
        \/ lastRun.config.allways_request_all_links)
        => AllLinksHanded

(***************************************************************************)
(* C20 (as claimed) In a run for a timestamp whose log exists, not forced, *)
(* every url of that log that the index does not list and whose recorded   *)
(* response has a content type matching a configured pattern is fetched    *)
(* again, and no url the index lists is fetched.                           *)
(***************************************************************************)
\* the urls of the log for T that qualify for a re-request
ReRequestUrls ==
    {log.url : log \in
        {l \in SeqToSet(lastRun.logs) :
            /\ l.url \notin PriorIndexUrls
            /\ IsResponseLog(l.response)
            /\ IsArchived(lastRun.config.content_types,
                          l.response.content_type)}}

FetchedAndSaved ==
    {log.url : log \in
        {l \in SeqToSet(lastRun.produced) :
            l.url \in lastRun.requested /\ l.is_saved}}

RunPersistsWhatItFetched ==
    lastRun.timestamp # 0 =>
        /\ ~lastRun.rerun => lastRun.logs = lastRun.produced
        /\ \A u \in FetchedAndSaved :
              /\ u \in IndexUrls
              /\ \E log \in SeqToSet(LogOfLastRun) :
                    log.url = u /\ log.is_saved

(***************************************************************************)
(* C22: the carried records of a run for timestamp T come from the log     *)
(* with the largest timestamp strictly less than T; a log of T or of a     *)
(* later timestamp is never the prior log, and when no log is older than T *)
(* there are no carried records.                                           *)
(***************************************************************************)
OlderStamps == {t \in LogTimestamps(plFiles) : t < plTimestamp}

PriorLogIsNewestOlder ==
    plResult # NotCalled =>
        /\ \A log \in SeqToSet(plResult.previous_logs) :
              /\ log.access_timestamp < plTimestamp
              /\ log.access_timestamp \in OlderStamps
              /\ \A t \in OlderStamps : t <= log.access_timestamp
        /\ OlderStamps = {} => plResult.previous_logs = <<>>
        /\ (~plForced /\ OlderStamps # {}) =>
              \E t \in OlderStamps :
                  /\ \A x \in OlderStamps : x <= t
                  /\ plResult.previous_logs = plFiles[t].logs

\* two logs are older than T, one is of T and one is newer, all with
\* records, and the lookup returned records
PriorAmongFourWitness ==
    /\ plResult # NotCalled
    /\ ~plForced
    /\ Cardinality(OlderStamps) = 2
    /\ \A t \in Stamps : plFiles[t] # NoFile /\ plFiles[t].logs # <<>>
    /\ plTimestamp \in Stamps
    /\ plResult.previous_logs # <<>>

(***************************************************************************)
(* C23: within one run no two fetch tasks write to the same file: the      *)
(* distinct urls handed to the fetch pipeline have distinct file paths.    *)
(***************************************************************************)
\* the task has opened its file for writing
HasOpened(i) ==
    \/ ftPc[i] = "read"
    \/ ftRecord[i] # NoRecord /\ ftRecord[i].is_saved

NoTwoTasksWriteOneFile ==
    \A i, j \in Tasks :
        (i # j /\ HasOpened(i) /\ HasOpened(j)) =>
            FilePath(ftLinks[i].url) # FilePath(ftLinks[j].url)

(***************************************************************************)
(* C24: a fetch task does not suspend between opening its file and         *)
(* finishing the write: while the body read is pending the file is not     *)
(* yet created, and a task whose request ended in a caught error leaves no *)
(* created or truncated file.  Tasks that share their file path with       *)
(* another task are left aside.                                            *)
(***************************************************************************)
AloneOnPath(i) ==
    \A j \in Tasks :
        j # i => FilePath(ftLinks[j].url) # FilePath(ftLinks[i].url)

FileOpenedAfterBodyRead ==
    \A i \in Tasks :
        AloneOnPath(i) =>
            /\ ftPc[i] = "read" =>
                  ftDisk[FilePath(ftLinks[i].url)] = "absent"
            /\ (ftRecord[i] # NoRecord
                  /\ IsRequestError(ftRecord[i].response)) =>
                  ftDisk[FilePath(ftLinks[i].url)] = "absent"

(***************************************************************************)
(* C25: a fetch task keeps its slot of the semaphore through its request   *)
(* and through the sleep of request_interval after it and gives it back    *)
(* only then: the free slots are parallel_limit minus the tasks that are   *)
(* requesting or sleeping, and the tasks admitted so far never outnumber   *)
(* parallel_limit plus the tasks that have finished request and sleep.     *)
(***************************************************************************)
SlotHeldThroughSleep ==
    ftMain \in {"running", "returned"} =>
        /\ ftSem = ftConfig.parallel_limit - Cardinality(Admitted)
        /\ Cardinality({i \in Tasks : ftPc[i] # "queued"}) <=
              ftConfig.parallel_limit
                  + Cardinality({i \in Tasks : ftPc[i] = "done"})

\* every slot is taken, a holder has its record and sleeps, and a link is
\* still queued behind it
QueuedBehindSleeperWitness ==
    /\ ftMain = "running"
    /\ ftSem = 0
    /\ \E i \in Tasks : ftPc[i] = "queued"
    /\ \E j \in Tasks :
          /\ ftPc[j] = "sleep"
          /\ ftRecord[j] # NoRecord
          /\ ~IsExcluded(ftConfig, ftLinks[j].url)

(***************************************************************************)
(* C26: commit_backups processes exactly the stored snapshots whose        *)
(* timestamp is strictly greater than the threshold -- the larger of the   *)
(* latest commit timestamp and the backup start date, those that exist;    *)
(* every snapshot when neither exists -- in ascending timestamp order and  *)
(* one at a time: the commit of a snapshot is created before the next      *)
(* snapshot is staged.                                                     *)
(***************************************************************************)
\* the commit time of the branch before the pass, 0 when it has no commit
EarlierCommit ==
    IF cbGit # <<>> /\ cbGit[1].kind = "earlier" THEN cbGit[1].timestamp
    ELSE 0

\* the stored snapshots that are due in the pass
DueSnapshots ==
    LET present == {x \in {cbConfig.start, EarlierCommit} : x # 0}
    IN  IF present = {} THEN cbStorage
        ELSE {t \in cbStorage : \A x \in present : x < t}

\* the events in which commit_backup took up a snapshot
TakenUp == SelectSeq(cbEvents, LAMBDA e : e.op \in {"stage", "skip", "raise"})

CommitsOldestFirstOneAtATime ==
    cbPc \notin {"idle", "start"} =>
        /\ \A k \in 1..Len(TakenUp) : TakenUp[k].timestamp \in DueSnapshots
        /\ \A k \in 1..(Len(TakenUp) - 1) :
              TakenUp[k].timestamp < TakenUp[k + 1].timestamp
        /\ cbPc = "done" =>
              {TakenUp[k].timestamp : k \in 1..Len(TakenUp)} = DueSnapshots
        /\ \A k \in 1..Len(cbEvents) :
              /\ cbEvents[k].op = "stage" =>
                    IF k = Len(cbEvents) THEN cbPc = "staged"
                    ELSE cbEvents[k + 1] =
                            Event("commit", cbEvents[k].timestamp)
              /\ cbEvents[k].op = "commit" =>
                    /\ k > 1
                    /\ cbEvents[k - 1] = Event("stage", cbEvents[k].timestamp)

\* a pass over four stored snapshots with a start date later than the latest
\* commit left the two oldest snapshots alone and committed the other two
TwoOfFourCommittedWitness ==
    /\ cbPc = "done"
    /\ cbStorage = Snaps
    /\ EarlierCommit # 0
    /\ cbConfig.start > EarlierCommit
    /\ Len(SelectSeq(cbEvents, LAMBDA e : e.op = "commit")) = 2

(***************************************************************************)
(* C27: when the merge of the backup CommitTarget with the external-link   *)
(* CommitTarget raises CommitTargetError, the commit pass ends there: the  *)
(* snapshot gets no commit, and no later snapshot is staged or committed.  *)
(***************************************************************************)
\* the commits the pass has made of snapshots
BackupCommits ==
    {cbGit[k] : k \in {j \in 1..Len(cbGit) : cbGit[j].kind = "backup"}}

MergeErrorEndsPass ==
    /\ \A k \in 1..Len(cbEvents) :
          cbEvents[k].op = "raise" =>
             /\ k = Len(cbEvents)
             /\ cbPc = "raised"
             /\ cbStaged = NoTarget
             /\ \A c \in BackupCommits : c.timestamp < cbEvents[k].timestamp
    /\ \A c \in BackupCommits : ~ValidateRaises(c.target)

\* the merge raised on the second of three due snapshots, after the first
\* was committed
RaisedBetweenSnapshotsWitness ==
    /\ cbPc = "raised"
    /\ Len(cbTargets) = 3
    /\ cbPos = 2
    /\ cbEvents[Len(cbEvents)] = Event("raise", cbTargets[2])
    /\ \E c \in BackupCommits : c.timestamp = cbTargets[1]

(***************************************************************************)
(* C28: a failure of the disk write of a fetched body is not turned into   *)
(* an Error record: the exception leaves the fetch pipeline, the run does  *)
(* not return, and neither the log of the run nor list.json is written.    *)
(***************************************************************************)
\* the tasks whose body is to be saved and whose open or write fails
DiskFailing ==
    {i \in Tasks :
        /\ ftOutcome[ftLinks[i].url] = "OSError"
        /\ ~IsExcluded(ftConfig, ftLinks[i].url)
        /\ IsArchived(ftConfig.content_types, "text/html")}

SwappedUpdate == UpdateTarget(ctArgs[2], ctArgs[1])

UpdateCommutes ==
    (/\ ctOp = "update"
     /\ ~ValidateRaises(ctArgs[1])
     /\ ~ValidateRaises(ctArgs[2])) =>
        /\ SwappedUpdate.raised <=> ctRaised
        /\ ~ctRaised => SwappedUpdate.obj = ctSelf

\* a merge of two different valid targets, one adding a file and the other
\* deleting another file, that succeeded with a result that is neither
DisjointMergeWitness ==
    /\ ctOp = "update"
    /\ ~ctRaised
    /\ ~ValidateRaises(ctArgs[1])
    /\ ctArgs[1].added # {}
    /\ ctArgs[2].deleted # {}
    /\ ctSelf # ctArgs[1]
    /\ ctSelf # ctArgs[2]

(***************************************************************************)
(* C30: the CommitTarget an archival run returns holds the index file      *)
(* list.json in exactly one of added and updated, and never in deleted.    *)
(***************************************************************************)
IndexStagedOnce ==
    Returned =>
        /\ (IndexFile \in lastRun.target.added)
               # (IndexFile \in lastRun.target.updated)
        /\ IndexFile \notin lastRun.target.deleted

\* a run that found no list.json, archived a file and returned a target
\* with that file added and list.json staged
FirstIndexStagedWitness ==
    /\ Returned
    /\ lastRun.previous_list = NoFile
    /\ lastRun.target.added \cap LinkFiles # {}
    /\ IndexFile \in lastRun.target.added \cup lastRun.target.updated

(***************************************************************************)
(* C31: a title that contains the characters %23 and a title that has #    *)
(* in that place are escaped by _escape_filename to different file names:  *)
(* the percent sign is escaped itself.  (As stated, with "the same         *)
(* filename": EscapedHashCollides.)                                        *)
(***************************************************************************)
EscapedHashCollides ==
    (esNames # <<>> /\ esEdit.kind = "hash") => esNames[1] = esNames[2]

EscapedHashDistinct ==
    (esNames # <<>> /\ esEdit.kind = "hash") =>
        /\ esNames[1] # esNames[2]
        /\ Len(esNames[1]) = Len(esNames[2]) + 2

\* the titles "_%23" and "_#" were escaped, to "_%2523" and "_%23"
HashAfterPrefixWitness ==
    /\ esNames # <<>>
    /\ esEdit = [kind |-> "hash", pos |-> 2]
    /\ esTitle = <<"_", "%", "2", "3">>
    /\ esNames[2] = esTitle

(***************************************************************************)
(* C32: is_empty() is true exactly when added, updated and deleted are all *)
(* empty, and Git.commit passes --allow-empty to the commit command        *)
(* exactly when is_empty() of its target is true.                          *)
(***************************************************************************)
\* the commits of the branch
Commits == {cbGit[k] : k \in 1..Len(cbGit)}

AllowEmptyIffNothingStaged ==
    \A c \in Commits :
        c.allow_empty <=>
            (c.target.added = {} /\ c.target.updated = {}
                /\ c.target.deleted = {})

\* one pass committed a snapshot that staged nothing, with --allow-empty,
\* and a snapshot that staged only a deletion, without it
EmptyAndDeletionCommitsWitness ==
    \E c1, c2 \in BackupCommits :
        /\ c1.allow_empty
        /\ c1.target = EmptyTarget
        /\ ~c2.allow_empty
        /\ c2.target.added = {}
        /\ c2.target.updated = {}
        /\ c2.target.deleted # {}

(***************************************************************************)
(* C33: when _commit_target returns, every file of deleted is gone from    *)
(* the disk and no directory below the links directory is empty: the       *)
(* directories are removed bottom-up, a parent that is empty only once its *)
(* children are removed included; the other files stay.                    *)
(***************************************************************************)
\* the directories that hold a file, directly or further down
HoldsFile(fs, d) ==
    \E f \in fs.files : Len(f) > Len(d) /\ SubSeq(f, 1, Len(d)) = d

DeletedGoneNoEmptyDirectory ==
    prPc = "returned" =>
        /\ prFs.files = prBefore.files \ prDeleted
        /\ \A d \in prFs.dirs : Children(prFs, d) # {}
        /\ prFs.dirs = {d \in prBefore.dirs : HoldsFile(prFs, d)}

\* the only file of a/b was deleted: a/b went, then a, which held nothing
\* but a/b, while b kept its file
NestedDirectoriesRemovedWitness ==
    /\ prPc = "returned"
    /\ prDeleted = {LinksRoot \o <<"a", "b", "f">>}
    /\ Children(prBefore, LinksRoot \o <<"a">>) = {LinksRoot \o <<"a", "b">>}
    /\ LinksRoot \o <<"a">> \notin prFs.dirs
    /\ LinksRoot \o <<"b", "f">> \in prFs.files

(***************************************************************************)
(* C34: a merge that fails is atomic: when a.update(b) raises              *)
(* CommitTargetError for a valid a, the three sets of a are what they were *)
(* before the call, so a is still pairwise disjoint.                       *)
(***************************************************************************)
FailedUpdateLeavesReceiver ==
    (/\ ctOp = "update"
     /\ ctRaised
     /\ ~ValidateRaises(ctArgs[1])) =>
        /\ ctSelf = ctArgs[1]
        /\ ~ValidateRaises(ctSelf)

(***************************************************************************)
(* C35: for any previous and current page lists, lists in which two titles *)
(* of one snapshot escape to the same file name included, _update_pages    *)
(* puts no page path into two of added, updated and deleted: building its  *)
(* CommitTarget never raises CommitTargetError.                            *)
(***************************************************************************)
\* the paths of the pages of one list of the diff
DiffPaths(pages) == {PageToFilePath(pages[i]) : i \in 1..Len(pages)}

PageStagingNeverRaises ==
    dfResult # NotCalled =>
        /\ ~dfTarget.raised
        /\ DiffPaths(dfResult.added) \cap DiffPaths(dfResult.updated) = {}
        /\ DiffPaths(dfResult.added) \cap DiffPaths(dfResult.deleted) = {}
        /\ DiffPaths(dfResult.updated) \cap DiffPaths(dfResult.deleted) = {}

(***************************************************************************)
(* C36: a file is on disk at a url-derived path of the links directory     *)
(* only if the index lists a url of that path; a fetch that ends as an     *)
(* Error record leaves no file that the index does not list.               *)
(***************************************************************************)
\* the paths of the urls list.json holds
IndexedPaths ==
    IF ftSaved.list = NoFile THEN {}
    ELSE {FilePath(u) : u \in SeqToSet(ftSaved.list.urls)}

DiskHoldsOnlyIndexedFiles ==
    ftMain = "returned" =>
        \A p \in LinkPaths : ftDisk[p] # "absent" => p \in IndexedPaths

(***************************************************************************)
(* C37: after a run, no record of the log for T whose url matches an       *)
(* exclusion pattern of the configuration has is_saved true                *)
(* (NoExcludedRecordSaved).  What holds: the record the run's pipeline     *)
(* makes for a handed url that matches an exclusion pattern is the         *)
(* excluded record, with is_saved false, and in a run that writes the log  *)
(* for T it is the record of that log; a carried record keeps its          *)
(* is_saved.                                                               *)
(***************************************************************************)
\* the url matches an exclusion pattern of the configuration of the run
MatchesExclusion(url) ==
    \E pattern \in lastRun.config.excluded_urls : UrlMatches(pattern, url)

NoExcludedRecordSaved ==
    Returned =>
        \A k \in 1..Len(lastRun.logs) :
            MatchesExclusion(lastRun.logs[k].url) => ~lastRun.logs[k].is_saved

ExcludedHandedNotSaved ==
    Returned =>
        /\ \A k \in 1..Len(lastRun.produced) :
              (/\ MatchesExclusion(lastRun.produced[k].url)
               /\ lastRun.produced[k].url \in lastRun.handed) =>
                  /\ ~lastRun.produced[k].is_saved
                  /\ lastRun.produced[k].response = Excluded
        /\ ~lastRun.rerun => lastRun.logs = lastRun.produced

\* a url that the index listed as archived was excluded and then handed to
\* the pipeline by a run that wrote its log: the record is the excluded one
ArchivedThenExcludedWitness ==
    /\ Returned
    /\ ~lastRun.rerun
    /\ \E k \in 1..Len(lastRun.logs) :
          /\ MatchesExclusion(lastRun.logs[k].url)
          /\ lastRun.logs[k].url \in lastRun.handed
          /\ lastRun.logs[k].url \in PriorIndexUrls
          /\ lastRun.logs[k].response = Excluded

(***************************************************************************)
(* C38: in a run that found no log for T, or that was forced, the log      *)
(* saved for T holds exactly one record for each url snapshot T            *)
(* references: no url twice, no referenced url missing, and no record of   *)
(* the prior log whose url the snapshot no longer references.              *)
(***************************************************************************)
\* the last run took the branch that requests and saves the log
WroteLog == lastRun.timestamp # 0 /\ ~lastRun.rerun

LogHoldsReferencedUrlsOnce ==
    WroteLog =>
        /\ NoDuplicateUrl(lastRun.logs)
        /\ UrlsOf(lastRun.logs) = snapshots[lastRun.timestamp].urls
        /\ lastRun.timestamp \in lastRun.found
        /\ logFiles[lastRun.timestamp] # NoFile =>
              logFiles[lastRun.timestamp].logs = lastRun.logs

\* the prior log held a url the snapshot still references and one it no
\* longer references, and the snapshot references a new url: one record
\* was carried, one dropped and one made
CarriedDroppedAndNewWitness ==
    /\ WroteLog
    /\ lastRun.carried \cap UrlsOf(lastRun.logs) # {}
    /\ lastRun.carried \ UrlsOf(lastRun.logs) # {}
    /\ lastRun.handed # {}
    /\ logFiles[lastRun.timestamp] # NoFile

\* C40: _classify_external_links leaves its inputs unchanged: after the
\* call, and after any later change of the locations list of a carried
\* record, every previous record and its response and every current link
\* are the objects they were, each with the locations list it had, and that
\* list holds what it held
Inputs == {id \in DOMAIN alBefore : ~IsFree(alBefore, id)}

InputsUnchanged ==
    alPc \in {"classified", "changed"} =>
        /\ \A id \in Inputs : alHeap[id] = alBefore[id]
        /\ \A k \in 1..Len(alResult.logs) :
            /\ alResult.logs[k] \notin Inputs
            /\ alHeap[alResult.logs[k]].locations \notin Inputs

\* the list of a carried record was changed and now differs from the list
\* of the link the record was carried for
CarriedListChangedWitness ==
    /\ alPc = "changed"
    /\ \E k \in 1..Len(alResult.logs) :
        \E i \in 1..Len(alLinks) :
            /\ alHeap[alLinks[i]].url = alHeap[alResult.logs[k]].url
            /\ alHeap[alHeap[alResult.logs[k]].locations].items
                   # alHeap[alHeap[alLinks[i]].locations].items
            /\ alHeap[alHeap[alLinks[i]].locations].items
                   = alBefore[alBefore[alLinks[i]].locations].items

\* C39: the fetch pipeline terminates without deadlock or starvation: when
\* every request ends in a response or in its timeout and no write to the
\* disk fails, every queued link is eventually admitted, the call
\* eventually returns, and it returns one record per input link, in input
\* order
RecordPerLinkInOrder ==
    /\ Len(ftRecord) = Len(ftLinks)
    /\ \A i \in Tasks :
          /\ ftRecord[i] # NoRecord
          /\ ftRecord[i].url = ftLinks[i].url
          /\ ftRecord[i].locations = ftLinks[i].locations

PipelineTerminates ==
    /\ \A i \in 1..MaxFetch :
          (i \in Tasks /\ ftPc[i] = "queued" /\ DiskFailing = {})
              ~> (i \in Tasks /\ ftPc[i] # "queued")
    /\ (ftMain = "running" /\ DiskFailing = {}) ~> (ftMain = "returned")
    /\ [](ftMain = "returned" => RecordPerLinkInOrder)

\* the call returned after a link had to wait for the slot of another
WaitedThenReturnedWitness ==
    /\ ftMain = "returned"
    /\ Len(ftLinks) > ftConfig.parallel_limit
    /\ \E i \in Tasks : ftDone[1] # i /\ ftStart[i] > ftStart[ftDone[1]]

====
